---- MODULE Spec2Model ----
(***************************************************************************)
(* Model of the notes-web backend (backend/src/index.ts): email-OTP signup *)
(* and signin, session tokens, and per-user notes, over the relational     *)
(* schema of the prisma migrations.                                        *)
(*                                                                         *)
(* Strings that the code trims or lower-cases are sequences of one-        *)
(* character strings.  Time is counted in ticks of 1/TicksPerSecond        *)
(* seconds (Date.now() is in milliseconds; the JWT clock is in seconds).   *)
(* A nullable id is 0, a nullable object a sequence of length 0 or 1.      *)
(***************************************************************************)
EXTENDS Integers, Sequences, FiniteSets, TLC

VARIABLES now, ticks, users, otps, sessions, notes, nextId, resp, inflight, failed, consumed, loggedOut, owner, origin, gone, issue, client, signedOut, form, dashboard

vars == <<now, ticks, users, otps, sessions, notes, nextId, resp, inflight, failed, consumed, loggedOut, owner, origin, gone, issue, client, signedOut, form, dashboard>>

dbVars == <<users, otps, sessions, notes, nextId>>

histVars == <<failed, consumed, loggedOut, owner, origin, gone, issue>>

(* the browser: localStorage and the route shown; signedOut is the history of the
   tokens that were in localStorage when handleSignOut ran; form is the state of the
   signup page, dashboard the state of the Dashboard component *)
clientVars == <<client, signedOut, form, dashboard>>

----------------------------------------------------------------------------
(* Bounds of the model *)

TicksPerSecond == 2

MaxTicks == 3

MaxOtps == 3

MaxSessions == 2

MaxNotes == 2

MaxFailed == 6

NotesMaxTicks == 1

NotesMaxOtps == 2

AuthzMaxTicks == 2

AuthzMaxNotes == 1

AuthzMaxOtps == 2

MaxProcs == 2

ConcMaxOtps == 2

RaceMaxTicks == 2

RaceMaxOtps == 2

RaceMaxSessions == 3

FaultMaxTicks == 2

ClientMaxTicks == 2

NoteRaceMaxNotes == 1

EditMaxOtps == 1

----------------------------------------------------------------------------
(* Program constants *)

OtpTtl == 10 * 60 * TicksPerSecond

DayTicks == 24 * 60 * 60 * TicksPerSecond

MonthTicks == 30 * 24 * 60 * 60 * TicksPerSecond

JwtExpiresIn == 30 * 24 * 60 * 60

AttemptLimit == 5

----------------------------------------------------------------------------
(* String.prototype.trim and toLowerCase on sequences of characters *)

RECURSIVE TrimStart(_)
TrimStart(s) ==
  IF s = <<>> THEN s
  ELSE IF Head(s) = " " THEN TrimStart(Tail(s)) ELSE s

RECURSIVE TrimEnd(_)
TrimEnd(s) ==
  IF s = <<>> THEN s
  ELSE IF s[Len(s)] = " " THEN TrimEnd(SubSeq(s, 1, Len(s) - 1)) ELSE s

Trim(s) == TrimEnd(TrimStart(s))

LowerChar(c) ==
  CASE c = "A" -> "a"
    [] c = "B" -> "b"
    [] OTHER -> c

ToLowerCase(s) == [i \in DOMAIN s |-> LowerChar(s[i])]

NormalizeEmail(email) == Trim(ToLowerCase(email))

(* JavaScript truthiness of a string: the empty string is falsy *)
Truthy(s) == s # <<>>

----------------------------------------------------------------------------
(* Inputs *)

RawEmails == { <<"a">>, <<"A", " ">>, <<"b">> }

(* the draws of generateOTP, crypto.randomInt(100000, 999999).toString() *)
Codes == { <<"1">>, <<"2">> }

(* a date string 'YYYY-MM-DD' is the sequence of its three numbers, the empty string << >> *)
Dobs == { <<2000, 1, 1>> }

(* new Date(s) of a date string: the day it names, or << >> for an Invalid Date.
   The browser's and the server's zone are taken to be UTC, and the days of the inputs
   are below 29, so that no day is read as one of the next month *)
ParseDate(s) ==
  IF Len(s) = 3 /\ s[2] \in 1 .. 12 /\ s[3] \in 1 .. 31
  THEN << [year |-> s[1], month |-> s[2], day |-> s[3]] >>
  ELSE << >>

----------------------------------------------------------------------------
(* Responses *)

NoToken == [signed |-> FALSE, userId |-> 0, type |-> "none", iat |-> 0, exp |-> 0]

GarbageToken == [signed |-> FALSE, userId |-> 0, type |-> "garbage", iat |-> 0, exp |-> 0]

(* the Authorization header: absent, or a scheme and what follows it *)
NoHeader == [present |-> FALSE, scheme |-> "", token |-> NoToken]

Bearer(token) == [present |-> TRUE, scheme |-> "Bearer", token |-> token]

BasicHeader == [present |-> TRUE, scheme |-> "Basic", token |-> NoToken]

(* the inputs of a request; a body field of a notes request is <<>> when absent, <<s>> when present *)
NoReq ==
  [name |-> <<>>, email |-> <<>>, dateOfBirth |-> <<>>, otp |-> <<>>, token |-> NoToken, keepLoggedIn |-> FALSE,
   header |-> NoHeader, noteId |-> 0, title |-> <<>>, content |-> <<>>]

(* the answer of a request: the status, the message and the fields of the body by
   which the properties speak of it; userId is the user the middleware authenticated
   and otpId the OTP row that findFirst returned, neither is sent *)
Response(op, status, msg, req) ==
  [op |-> op, status |-> status, msg |-> msg, req |-> req,
   token |-> NoToken, user |-> <<>>, userId |-> 0, notes |-> <<>>, note |-> <<>>, mailed |-> <<>>,
   otpId |-> 0]

NoResp == Response("none", 0, "", NoReq)

Outcome(r, d) == [resp |-> r, db |-> d]

----------------------------------------------------------------------------
(* The database: d is a record of the tables and of the id generators *)

DB == [users |-> users, otps |-> otps, sessions |-> sessions, notes |-> notes, nextId |-> nextId]

EmptyDB ==
  [users |-> {}, otps |-> {}, sessions |-> {}, notes |-> {},
   nextId |-> [user |-> 1, otp |-> 1, session |-> 1, note |-> 1]]

(* prisma.user.findUnique({ where: { email } }) *)
FindUserByEmail(d, e) == { u \in d.users : u.email = e }

(* prisma.otp.deleteMany({ where: { expiresAt: { lt: new Date() } } }) *)
cleanupExpiredOtps(d, t) == [d EXCEPT !.otps = { o \in @ : ~(o.expiresAt < t) }]

(* prisma.otp.deleteMany({ where: { email, type } }) *)
DeleteOtps(d, e, type) == [d EXCEPT !.otps = { o \in @ : ~(o.email = e /\ o.type = type) }]

(* prisma.otp.create: defaults verified = false, attempts = 0, createdAt = now() *)
CreateOtp(d, t, code, e, type, expiresAt, userId, signupData) ==
  [d EXCEPT !.otps = @ \cup { [id |-> d.nextId.otp, code |-> code, email |-> e, type |-> type,
                               expiresAt |-> expiresAt, verified |-> FALSE, attempts |-> 0,
                               userId |-> userId, signupData |-> signupData, createdAt |-> t] },
            !.nextId.otp = @ + 1]

(* FindOtp with expiresAt: { gte: new Date() } *)
FindOtp_gte(d, t, e, code, type) ==
  { o \in d.otps : o.email = e /\ o.code = code /\ o.type = type /\ ~o.verified /\ o.expiresAt >= t }

(* FindOtp without verified: false *)
FindOtp_anyVerified(d, t, e, code, type) ==
  { o \in d.otps : o.email = e /\ o.code = code /\ o.type = type /\ o.expiresAt > t }

(* FindOtp without the type *)
FindOtp_anyType(d, t, e, code, type) ==
  { o \in d.otps : o.email = e /\ o.code = code /\ ~o.verified /\ o.expiresAt > t }

(* prisma.otp.findFirst({ where: { email, code, type, verified: false, expiresAt: { gt: new Date() } } }):
   the rows that match; findFirst returns one of them, or null when there is none *)
FindOtp(d, t, e, code, type) ==
  { o \in d.otps : o.email = e /\ o.code = code /\ o.type = type /\ ~o.verified /\ o.expiresAt > t }

(* generateToken signing another type *)
generateToken_wrongType(userId, t) ==
  [signed |-> TRUE, userId |-> userId, type |-> "access",
   iat |-> t \div TicksPerSecond, exp |-> (t \div TicksPerSecond) + JwtExpiresIn]

(* jwt.sign({ userId, type: 'session' }, secret, { expiresIn: '30d' }): iat is the clock in whole seconds *)
generateToken(userId, t) ==
  [signed |-> TRUE, userId |-> userId, type |-> "session",
   iat |-> t \div TicksPerSecond, exp |-> (t \div TicksPerSecond) + JwtExpiresIn]

(* jwt.verify: the signature, then exp against the clock in whole seconds; then the type.
   The result is <<>> for null and <<userId>> otherwise *)
verifyToken(token, t) ==
  IF token.signed /\ (t \div TicksPerSecond) < token.exp /\ token.type = "session"
  THEN << token.userId >>
  ELSE << >>

(* prisma.session.create: isActive defaults to true, createdAt to now(); sessions_token_key makes the token unique.
   The result is <<>> when the promise rejects: the unique index refuses the row, or the
   database does not answer (sessionOk is FALSE) *)
CreateSession(d, t, userId, token, expiresAt, sessionOk) ==
  IF ~sessionOk \/ \E s \in d.sessions : s.token = token
  THEN << >>
  ELSE << [d EXCEPT !.sessions = @ \cup { [id |-> d.nextId.session, userId |-> userId, token |-> token,
                                           expiresAt |-> expiresAt, isActive |-> TRUE, createdAt |-> t] },
                    !.nextId.session = @ + 1] >>

(* tx.user.create without the unique index on the email *)
CreateUser_noUniqueIndex(d, signupData) ==
  IF ParseDate(signupData.dateOfBirth) = << >>
  THEN << >>
  ELSE << [d EXCEPT !.users = @ \cup { [id |-> d.nextId.user, name |-> signupData.name,
                                        email |-> signupData.email,
                                        dateOfBirth |-> ParseDate(signupData.dateOfBirth)[1],
                                        verified |-> TRUE, isActive |-> TRUE] },
                    !.nextId.user = @ + 1] >>

(* tx.user.create with the columns' defaults: verified is left to DEFAULT false *)
CreateUser_defaultVerified(d, signupData) ==
  IF ParseDate(signupData.dateOfBirth) = << >> \/ \E u \in d.users : u.email = signupData.email
  THEN << >>
  ELSE << [d EXCEPT !.users = @ \cup { [id |-> d.nextId.user, name |-> signupData.name,
                                        email |-> signupData.email,
                                        dateOfBirth |-> ParseDate(signupData.dateOfBirth)[1],
                                        verified |-> FALSE, isActive |-> TRUE] },
                    !.nextId.user = @ + 1] >>

(* tx.user.create: verified is set, is_active defaults to true; users_email_key makes the
   email unique.  <<>> when the create rejects: the index refuses the row, or
   new Date(signupData.dateOfBirth) is an Invalid Date *)
CreateUser(d, signupData) ==
  IF ParseDate(signupData.dateOfBirth) = << >> \/ \E u \in d.users : u.email = signupData.email
  THEN << >>
  ELSE << [d EXCEPT !.users = @ \cup { [id |-> d.nextId.user, name |-> signupData.name,
                                        email |-> signupData.email,
                                        dateOfBirth |-> ParseDate(signupData.dateOfBirth)[1],
                                        verified |-> TRUE, isActive |-> TRUE] },
                    !.nextId.user = @ + 1] >>

(* prisma.otp.update({ where: { id }, data: { verified: true, userId } }) *)
MarkOtpVerified(d, id, userId) ==
  [d EXCEPT !.otps = { IF o.id = id THEN [o EXCEPT !.verified = TRUE, !.userId = userId] ELSE o : o \in @ }]

(* prisma.otp.update({ where: { id }, data: { attempts: { increment: 1 } } }) *)
IncrementAttempts(d, id) ==
  [d EXCEPT !.otps = { IF o.id = id THEN [o EXCEPT !.attempts = @ + 1] ELSE o : o \in @ }]

PublicUser(u) == << [id |-> u.id, name |-> u.name, email |-> u.email, dateOfBirth |-> u.dateOfBirth] >>

----------------------------------------------------------------------------
(* POST /api/signup *)

(* SignupHandler deleting the SIGNUP OTPs of the email before it looks the user up *)
SignupHandler_deleteFirst(d, t, name, email, dateOfBirth, mailOk, code) ==
  LET req == [NoReq EXCEPT !.name = name, !.email = email, !.dateOfBirth = dateOfBirth]
      R(status, msg) == Response("signup", status, msg, req)
      e == NormalizeEmail(email)
      d1 == cleanupExpiredOtps(d, t)
      d2 == DeleteOtps(d1, e, "SIGNUP")
      data == << [name |-> Trim(name), email |-> e, dateOfBirth |-> dateOfBirth] >>
  IN  IF ~Truthy(name) \/ ~Truthy(email) \/ ~Truthy(dateOfBirth)
      THEN { Outcome(R(400, "Name, email, and date of birth are required"), d) }
      ELSE IF FindUserByEmail(d2, e) # {}
      THEN { Outcome(R(409, "User already exists"), d2) }
      ELSE { Outcome([(IF mailOk THEN R(200, "OTP sent to your email")
                                 ELSE R(500, "Signup failed. Please try again."))
                       EXCEPT !.mailed = IF mailOk THEN << [to |-> e, code |-> code, type |-> "SIGNUP"] >> ELSE << >>],
                     CreateOtp(d2, t, code, e, "SIGNUP", t + OtpTtl, 0, data)) }

(* SignupHandler keeping the SIGNUP OTPs that the email already has *)
SignupHandler_keepOtps(d, t, name, email, dateOfBirth, mailOk, code) ==
  LET req == [NoReq EXCEPT !.name = name, !.email = email, !.dateOfBirth = dateOfBirth]
      R(status, msg) == Response("signup", status, msg, req)
      e == NormalizeEmail(email)
      d1 == cleanupExpiredOtps(d, t)
      data == << [name |-> Trim(name), email |-> e, dateOfBirth |-> dateOfBirth] >>
  IN  IF ~Truthy(name) \/ ~Truthy(email) \/ ~Truthy(dateOfBirth)
      THEN { Outcome(R(400, "Name, email, and date of birth are required"), d) }
      ELSE IF FindUserByEmail(d1, e) # {}
      THEN { Outcome(R(409, "User already exists"), d1) }
      ELSE { Outcome([(IF mailOk THEN R(200, "OTP sent to your email")
                                 ELSE R(500, "Signup failed. Please try again."))
                       EXCEPT !.mailed = IF mailOk THEN << [to |-> e, code |-> code, type |-> "SIGNUP"] >> ELSE << >>],
                     CreateOtp(d1, t, code, e, "SIGNUP", t + OtpTtl, 0, data)) }

(* SignupHandler undoing its writes when the mail is not sent *)
SignupHandler_rollback(d, t, name, email, dateOfBirth, mailOk, code) ==
  LET req == [NoReq EXCEPT !.name = name, !.email = email, !.dateOfBirth = dateOfBirth]
      R(status, msg) == Response("signup", status, msg, req)
      e == NormalizeEmail(email)
      d1 == cleanupExpiredOtps(d, t)
      d2 == DeleteOtps(d1, e, "SIGNUP")
      data == << [name |-> Trim(name), email |-> e, dateOfBirth |-> dateOfBirth] >>
  IN  IF ~Truthy(name) \/ ~Truthy(email) \/ ~Truthy(dateOfBirth)
      THEN { Outcome(R(400, "Name, email, and date of birth are required"), d) }
      ELSE IF FindUserByEmail(d1, e) # {}
      THEN { Outcome(R(409, "User already exists"), d1) }
      ELSE IF ~mailOk
      THEN { Outcome(R(500, "Signup failed. Please try again."), d1) }
      ELSE { Outcome([R(200, "OTP sent to your email")
                       EXCEPT !.mailed = << [to |-> e, code |-> code, type |-> "SIGNUP"] >>],
                     CreateOtp(d2, t, code, e, "SIGNUP", t + OtpTtl, 0, data)) }

SignupHandler(d, t, name, email, dateOfBirth, mailOk, code) ==
  LET req == [NoReq EXCEPT !.name = name, !.email = email, !.dateOfBirth = dateOfBirth]
      R(status, msg) == Response("signup", status, msg, req)
      e == NormalizeEmail(email)
      d1 == cleanupExpiredOtps(d, t)
      d2 == DeleteOtps(d1, e, "SIGNUP")
      data == << [name |-> Trim(name), email |-> e, dateOfBirth |-> dateOfBirth] >>
  IN  IF ~Truthy(name) \/ ~Truthy(email) \/ ~Truthy(dateOfBirth)
      THEN { Outcome(R(400, "Name, email, and date of birth are required"), d) }
      ELSE IF FindUserByEmail(d1, e) # {}
      THEN { Outcome(R(409, "User already exists"), d1) }
      ELSE { Outcome([(IF mailOk THEN R(200, "OTP sent to your email")
                                 ELSE R(500, "Signup failed. Please try again."))
                       EXCEPT !.mailed = IF mailOk THEN << [to |-> e, code |-> code, type |-> "SIGNUP"] >> ELSE << >>],
                     CreateOtp(d2, t, code, e, "SIGNUP", t + OtpTtl, 0, data)) }

----------------------------------------------------------------------------
(* POST /api/signup/verify *)

(* the checks between findFirst and the transaction; <<>> when the request goes on *)
SignupVerifyCheck(req, otpRecord) ==
  LET R(status, msg) == Response("signup/verify", status, msg, req)
  IN  IF otpRecord.attempts >= AttemptLimit
      THEN << R(400, "Too many attempts. Please request a new OTP.") >>
      ELSE IF otpRecord.signupData = << >>
      THEN << R(400, "Invalid signup data") >>
      ELSE << >>

(* prisma.$transaction: user.create, then otp.update where id; a throw rolls both back.
   <<>> when it throws, else the new database and the created user *)
SignupVerifyTx(d, otpRecord) ==
  LET created == CreateUser(d, otpRecord.signupData[1])
  IN  IF created = << >>
      THEN << >>
      ELSE IF ~(\E o \in d.otps : o.id = otpRecord.id)
      THEN << >>
      ELSE << [db |-> MarkOtpVerified(created[1], otpRecord.id, d.nextId.user),
               user |-> CHOOSE u \in created[1].users : u.id = d.nextId.user] >>

(* generateToken, prisma.session.create with a 30 day expiry, and the success response *)
SignupVerifySession(d, t, req, user, sessionOk) ==
  LET R(status, msg) == Response("signup/verify", status, msg, req)
      token == generateToken(user.id, t)
      d2 == CreateSession(d, t, user.id, token, t + MonthTicks, sessionOk)
  IN  IF d2 = << >>
      THEN Outcome(R(500, "Verification failed"), d)
      ELSE Outcome([R(200, "Account created successfully")
                     EXCEPT !.user = PublicUser(user), !.userId = user.id, !.token = token], d2[1])

SignupVerifyOn(d, t, req, otpRecord, sessionOk) ==
  LET R(status, msg) == Response("signup/verify", status, msg, req)
      rejected == SignupVerifyCheck(req, otpRecord)
      tx == SignupVerifyTx(d, otpRecord)
      out == IF rejected # << >>
             THEN Outcome(rejected[1], d)
             ELSE IF tx = << >>
             THEN Outcome(R(500, "Verification failed"), d)
             ELSE SignupVerifySession(tx[1].db, t, req, tx[1].user, sessionOk)
  IN  [out EXCEPT !.resp.otpId = otpRecord.id]

SignupVerifyHandler(d, t, email, otp, sessionOk) ==
  LET req == [NoReq EXCEPT !.email = email, !.otp = otp]
      R(status, msg) == Response("signup/verify", status, msg, req)
      found == FindOtp(d, t, NormalizeEmail(email), Trim(otp), "SIGNUP")
  IN  IF ~Truthy(email) \/ ~Truthy(otp)
      THEN { Outcome(R(400, "Email and OTP are required"), d) }
      ELSE IF found = {}
      THEN { Outcome(R(400, "Invalid or expired OTP"), d) }
      ELSE { SignupVerifyOn(d, t, req, otpRecord, sessionOk) : otpRecord \in found }

----------------------------------------------------------------------------
(* POST /api/signin and POST /api/signin/resend: the same steps, other messages *)

IssueSigninOtp(op, okMsg, failMsg, d, t, email, mailOk, code) ==
  LET req == [NoReq EXCEPT !.email = email]
      R(status, msg) == Response(op, status, msg, req)
      e == NormalizeEmail(email)
      d1 == cleanupExpiredOtps(d, t)
      found == FindUserByEmail(d1, e)
      user == CHOOSE u \in found : TRUE
      d2 == DeleteOtps(d1, e, "SIGNIN")
  IN  IF ~Truthy(email)
      THEN { Outcome(R(400, "Email is required"), d) }
      ELSE IF found = {}
      THEN { Outcome(R(404, "User not found"), d1) }
      ELSE IF ~user.verified
      THEN { Outcome(R(400, "Please complete signup verification first"), d1) }
      ELSE IF ~user.isActive
      THEN { Outcome(R(403, "Account is deactivated"), d1) }
      ELSE { Outcome([(IF mailOk THEN R(200, okMsg) ELSE R(500, failMsg))
                       EXCEPT !.mailed = IF mailOk THEN << [to |-> e, code |-> code, type |-> "SIGNIN"] >> ELSE << >>],
                     CreateOtp(d2, t, code, e, "SIGNIN", t + OtpTtl, user.id, << >>)) }

SigninHandler(d, t, email, mailOk, code) ==
  IssueSigninOtp("signin", "OTP sent to your email", "Failed to send OTP", d, t, email, mailOk, code)

SigninResendHandler(d, t, email, mailOk, code) ==
  IssueSigninOtp("signin/resend", "New OTP sent to your email", "Failed to resend OTP", d, t, email, mailOk, code)

----------------------------------------------------------------------------
(* POST /api/signin/verify *)

(* include: { user: true }: the user row of the OTP, <<>> when there is none *)
OtpUser(d, otpRecord) ==
  IF \E u \in d.users : u.id = otpRecord.userId
  THEN << CHOOSE u \in d.users : u.id = otpRecord.userId >>
  ELSE << >>

(* prisma.otp.update({ where: { id }, data: { verified: true } }); <<>> when the row is gone *)
ConsumeOtp(d, id) ==
  IF \E o \in d.otps : o.id = id
  THEN << [d EXCEPT !.otps = { IF o.id = id THEN [o EXCEPT !.verified = TRUE] ELSE o : o \in @ }] >>
  ELSE << >>

(* SigninVerifySession with the two expiries swapped *)
SigninVerifySession_swapped(d, t, req, user, sessionOk) ==
  LET R(status, msg) == Response("signin/verify", status, msg, req)
      token == generateToken(user.id, t)
      expiresAt == IF req.keepLoggedIn THEN t + DayTicks ELSE t + MonthTicks
      d2 == CreateSession(d, t, user.id, token, expiresAt, sessionOk)
  IN  IF d2 = << >>
      THEN Outcome(R(500, "Signin failed"), d)
      ELSE Outcome([R(200, "Signed in successfully")
                     EXCEPT !.user = PublicUser(user), !.userId = user.id, !.token = token], d2[1])

(* generateToken, the expiry chosen by keepLoggedIn, prisma.session.create, and the success response *)
SigninVerifySession(d, t, req, user, sessionOk) ==
  LET R(status, msg) == Response("signin/verify", status, msg, req)
      token == generateToken(user.id, t)
      expiresAt == IF req.keepLoggedIn THEN t + MonthTicks ELSE t + DayTicks
      d2 == CreateSession(d, t, user.id, token, expiresAt, sessionOk)
  IN  IF d2 = << >>
      THEN Outcome(R(500, "Signin failed"), d)
      ELSE Outcome([R(200, "Signed in successfully")
                     EXCEPT !.user = PublicUser(user), !.userId = user.id, !.token = token], d2[1])

SigninVerifyOn(d, t, req, otpRecord, sessionOk) ==
  LET R(status, msg) == Response("signin/verify", status, msg, req)
      user == OtpUser(d, otpRecord)
      consumed_ == ConsumeOtp(d, otpRecord.id)
      out == IF user = << >>
             THEN Outcome(R(400, "Invalid or expired OTP"), IncrementAttempts(d, otpRecord.id))
             ELSE IF otpRecord.attempts >= AttemptLimit
             THEN Outcome(R(400, "Too many attempts. Please request a new OTP."), d)
             ELSE IF consumed_ = << >>
             THEN Outcome(R(500, "Signin failed"), d)
             ELSE SigninVerifySession(consumed_[1], t, req, user[1], sessionOk)
  IN  [out EXCEPT !.resp.otpId = otpRecord.id]

SigninVerifyHandler(d, t, email, otp, keepLoggedIn, sessionOk) ==
  LET req == [NoReq EXCEPT !.email = email, !.otp = otp, !.keepLoggedIn = keepLoggedIn]
      R(status, msg) == Response("signin/verify", status, msg, req)
      found == FindOtp(d, t, NormalizeEmail(email), Trim(otp), "SIGNIN")
  IN  IF ~Truthy(email) \/ ~Truthy(otp)
      THEN { Outcome(R(400, "Email and OTP are required"), d) }
      ELSE IF found = {}
      THEN { Outcome(R(400, "Invalid or expired OTP"), d) }
      ELSE { SigninVerifyOn(d, t, req, otpRecord, sessionOk) : otpRecord \in found }

----------------------------------------------------------------------------
(* POST /api/logout *)

(* DeactivateSessions reaching every session of the user whose token it is *)
DeactivateSessions_ofUser(d, token) ==
  [d EXCEPT !.sessions = { IF \E x \in d.sessions : x.token = token /\ x.userId = s.userId
                           THEN [s EXCEPT !.isActive = FALSE] ELSE s : s \in @ }]

(* prisma.session.updateMany({ where: { token }, data: { isActive: false } }) *)
DeactivateSessions(d, token) ==
  [d EXCEPT !.sessions = { IF s.token = token THEN [s EXCEPT !.isActive = FALSE] ELSE s : s \in @ }]

LogoutHandler(d, token) ==
  LET req == [NoReq EXCEPT !.token = token]
      R(status, msg) == Response("logout", status, msg, req)
  IN  IF token = NoToken
      THEN { Outcome(R(400, "Token is required"), d) }
      ELSE { Outcome(R(200, "Logged out successfully"), DeactivateSessions(d, token)) }

----------------------------------------------------------------------------
(* authMiddleware *)

(* FindSession without isActive: true *)
FindSession_anyActive(d, t, token) ==
  { s \in d.sessions : s.token = token /\ s.expiresAt > t }

(* FindSession without the expiresAt filter *)
FindSession_noExpiry(d, t, token) ==
  { s \in d.sessions : s.token = token /\ s.isActive }

(* prisma.session.findFirst({ where: { token, isActive: true, expiresAt: { gt: new Date() } } }) *)
FindSession(d, t, token) ==
  { s \in d.sessions : s.token = token /\ s.isActive /\ s.expiresAt > t }

(* authMiddleware trusting the JWT without the session lookup *)
authMiddleware_jwtOnly(d, t, header) ==
  LET decoded == verifyToken(header.token, t)
      Deny(msg) == [ok |-> FALSE, status |-> 401, msg |-> msg, userId |-> 0]
  IN  IF ~header.present \/ header.scheme # "Bearer"
      THEN Deny("Unauthorized")
      ELSE IF decoded = << >>
      THEN Deny("Invalid token")
      ELSE [ok |-> TRUE, status |-> 200, msg |-> "", userId |-> decoded[1]]

(* the 401 answer, or ok with the userId that the handler then runs under *)
authMiddleware(d, t, header) ==
  LET decoded == verifyToken(header.token, t)
      Deny(msg) == [ok |-> FALSE, status |-> 401, msg |-> msg, userId |-> 0]
  IN  IF ~header.present \/ header.scheme # "Bearer"
      THEN Deny("Unauthorized")
      ELSE IF decoded = << >>
      THEN Deny("Invalid token")
      ELSE IF FindSession(d, t, header.token) = {}
      THEN Deny("Session expired")
      ELSE [ok |-> TRUE, status |-> 200, msg |-> "", userId |-> decoded[1]]

----------------------------------------------------------------------------
(* Notes endpoints; each runs behind authMiddleware *)

(* orderBy: { createdAt: 'desc' }: every ordering of the rows that is newest first
   (rows created at the same instant come in either order) *)
RECURSIVE OrderByCreatedAtDesc(_)
OrderByCreatedAtDesc(rows) ==
  IF rows = {} THEN { << >> }
  ELSE UNION { { << x >> \o rest : rest \in OrderByCreatedAtDesc(rows \ {x}) } :
               x \in { y \in rows : \A z \in rows : y.createdAt >= z.createdAt } }

(* findMany without the where clause *)
FindNotesOf_all(d, userId) == d.notes

(* prisma.note.findMany({ where: { userId } }) *)
FindNotesOf(d, userId) == { n \in d.notes : n.userId = userId }

(* findFirst by id alone *)
FindNote_anyOwner(d, noteId, userId) == { n \in d.notes : n.id = noteId }

(* prisma.note.findFirst({ where: { id: noteId, userId } }) *)
FindNote(d, noteId, userId) == { n \in d.notes : n.id = noteId /\ n.userId = userId }

(* a body field that is present and a non-empty string *)
FieldTruthy(f) == f # << >> /\ Truthy(f[1])

GetNotesHandler(d, t, header) ==
  LET req == [NoReq EXCEPT !.header = header]
      R(status, msg) == Response("GET /api/notes", status, msg, req)
      auth == authMiddleware(d, t, header)
  IN  IF ~auth.ok
      THEN { Outcome(R(auth.status, auth.msg), d) }
      ELSE { Outcome([R(200, "") EXCEPT !.userId = auth.userId, !.notes = list], d) :
             list \in OrderByCreatedAtDesc(FindNotesOf(d, auth.userId)) }

CreateNoteHandler(d, t, header, title, content) ==
  LET req == [NoReq EXCEPT !.header = header, !.title = title, !.content = content]
      R(status, msg) == Response("POST /api/notes", status, msg, req)
      auth == authMiddleware(d, t, header)
      note == [id |-> d.nextId.note, title |-> Trim(title[1]),
               content |-> IF content = << >> THEN << >> ELSE Trim(content[1]),
               userId |-> auth.userId, createdAt |-> t]
  IN  IF ~auth.ok
      THEN { Outcome(R(auth.status, auth.msg), d) }
      ELSE IF ~FieldTruthy(title) \/ ~Truthy(Trim(title[1]))
      THEN { Outcome([R(400, "Title is required") EXCEPT !.userId = auth.userId], d) }
      ELSE { Outcome([R(200, "Note created successfully") EXCEPT !.userId = auth.userId, !.note = << note >>],
                     [d EXCEPT !.notes = @ \cup { note }, !.nextId.note = @ + 1]) }

(* UpdateNote writing the default content when the request carries none *)
UpdateNote_defaultContent(d, noteId, title, content) ==
  LET Upd(n) == [n EXCEPT !.title = IF FieldTruthy(title) THEN Trim(title[1]) ELSE @,
                          !.content = IF content # << >> THEN Trim(content[1]) ELSE << >>]
  IN  IF \E n \in d.notes : n.id = noteId
      THEN << [d EXCEPT !.notes = { IF n.id = noteId THEN Upd(n) ELSE n : n \in @ }] >>
      ELSE << >>

(* prisma.note.update({ where: { id }, data }) with the supplied fields; <<>> when the row is gone *)
UpdateNote(d, noteId, title, content) ==
  LET Upd(n) == [n EXCEPT !.title = IF FieldTruthy(title) THEN Trim(title[1]) ELSE @,
                          !.content = IF content # << >> THEN Trim(content[1]) ELSE @]
  IN  IF \E n \in d.notes : n.id = noteId
      THEN << [d EXCEPT !.notes = { IF n.id = noteId THEN Upd(n) ELSE n : n \in @ }] >>
      ELSE << >>

UpdateNoteHandler(d, t, header, noteId, title, content) ==
  LET req == [NoReq EXCEPT !.header = header, !.noteId = noteId, !.title = title, !.content = content]
      R(status, msg) == Response("PUT /api/notes/:id", status, msg, req)
      auth == authMiddleware(d, t, header)
      RU(status, msg) == [R(status, msg) EXCEPT !.userId = auth.userId]
      updated == UpdateNote(d, noteId, title, content)
  IN  IF ~auth.ok
      THEN { Outcome(R(auth.status, auth.msg), d) }
      ELSE IF ~FieldTruthy(title) /\ content = << >>
      THEN { Outcome(RU(400, "Title or content is required"), d) }
      ELSE IF FindNote(d, noteId, auth.userId) = {}
      THEN { Outcome(RU(404, "Note not found"), d) }
      ELSE IF updated = << >>
      THEN { Outcome(RU(500, "Failed to update note"), d) }
      ELSE { Outcome([RU(200, "Note updated successfully")
                       EXCEPT !.note = << CHOOSE n \in updated[1].notes : n.id = noteId >>], updated[1]) }

(* DeleteNote as a deleteMany of the notes of the note's owner *)
DeleteNote_allOfOwner(d, noteId) ==
  IF \E n \in d.notes : n.id = noteId
  THEN << [d EXCEPT !.notes = { n \in @ : \A x \in d.notes : x.id = noteId => n.userId # x.userId }] >>
  ELSE << >>

(* prisma.note.delete({ where: { id } }); <<>> when the row is gone *)
DeleteNote(d, noteId) ==
  IF \E n \in d.notes : n.id = noteId
  THEN << [d EXCEPT !.notes = { n \in @ : n.id # noteId }] >>
  ELSE << >>

DeleteNoteHandler(d, t, header, noteId) ==
  LET req == [NoReq EXCEPT !.header = header, !.noteId = noteId]
      R(status, msg) == Response("DELETE /api/notes/:id", status, msg, req)
      auth == authMiddleware(d, t, header)
      RU(status, msg) == [R(status, msg) EXCEPT !.userId = auth.userId]
      deleted == DeleteNote(d, noteId)
  IN  IF ~auth.ok
      THEN { Outcome(R(auth.status, auth.msg), d) }
      ELSE IF FindNote(d, noteId, auth.userId) = {}
      THEN { Outcome(RU(404, "Note not found"), d) }
      ELSE IF deleted = << >>
      THEN { Outcome(RU(500, "Failed to delete note"), d) }
      ELSE { Outcome(RU(200, "Note deleted successfully"), deleted[1]) }

----------------------------------------------------------------------------
(* History of the run, kept to state the properties: failed counts the rejected
   wrong-code verify requests against the outstanding OTP of an (email, type);
   consumed holds the (email, type, code) that a verify request succeeded with
   and that no later issue replaced; loggedOut the tokens for which logout
   answered success; owner the creator of every note ever created; origin the
   request (endpoint, keepLoggedIn) and the OTP row that created each session;
   gone the ids of the notes for which DELETE answered success. *)

NormEmails == { NormalizeEmail(e) : e \in RawEmails }

OtpTypes == { "SIGNUP", "SIGNIN" }

IssueOps == { "signup", "signin", "signin/resend" }

VerifyOps == { "signup/verify", "signin/verify" }

NotesOps == { "GET /api/notes", "POST /api/notes", "PUT /api/notes/:id", "DELETE /api/notes/:id" }

OtpTypeOf(op) == IF op \in { "signup", "signup/verify" } THEN "SIGNUP" ELSE "SIGNIN"

Outstanding(d, t, e, type) ==
  { o \in d.otps : o.email = e /\ o.type = type /\ ~o.verified /\ o.expiresAt > t }

Min(a, b) == IF a < b THEN a ELSE b

Track(o, I) ==
  LET r == o.resp
      e == NormalizeEmail(r.req.email)
      type == OtpTypeOf(r.op)
      issued == r.op \in IssueOps /\ o.db.nextId.otp # nextId.otp
      verifiedOk == r.op \in VerifyOps /\ r.status = 200
      wrongCode == /\ r.op \in VerifyOps
                   /\ r.msg = "Invalid or expired OTP"
                   /\ Outstanding(DB, now, e, type) # {}
  IN  /\ failed' = IF "failed" \notin I.track THEN failed
                   ELSE IF issued THEN [failed EXCEPT ![<<e, type>>] = 0]
                   ELSE IF wrongCode THEN [failed EXCEPT ![<<e, type>>] = Min(@ + 1, MaxFailed)]
                   ELSE failed
      /\ consumed' = IF "consumed" \notin I.track THEN consumed
                     ELSE IF issued THEN { k \in consumed : ~(k[1] = e /\ k[2] = type) }
                     ELSE IF verifiedOk THEN consumed \cup { <<e, type, Trim(r.req.otp)>> }
                     ELSE consumed
      /\ loggedOut' = IF "loggedOut" \in I.track /\ r.op = "logout" /\ r.status = 200 THEN loggedOut \cup { r.req.token } ELSE loggedOut
      /\ owner' = IF "owner" \in I.track /\ r.op = "POST /api/notes" /\ r.status = 200
                  THEN owner \cup { << r.note[1].id, r.userId >> }
                  ELSE owner
      /\ origin' = IF "origin" \in I.track /\ verifiedOk
                   THEN origin \cup { << nextId.session, r.op, r.req.keepLoggedIn, r.otpId >> }
                   ELSE origin
      /\ gone' = IF "gone" \in I.track /\ r.op = "DELETE /api/notes/:id" /\ r.status = 200
                 THEN gone \cup { r.req.noteId }
                 ELSE gone
      /\ issue' = IF "issue" \in I.track /\ issued
                  THEN issue \cup { [otpId |-> nextId.otp, op |-> r.op, status |-> r.status, req |-> r.req] }
                  ELSE issue

----------------------------------------------------------------------------
(* State machine: every request is handled in one step *)

(* the requests in flight: where each one stands, and what it holds in its locals *)
Procs == 1 .. MaxProcs

Idle ==
  [pc |-> "idle", req |-> NoReq, code |-> << >>, name |-> << >>, dateOfBirth |-> << >>,
   otpRecord |-> << >>, user |-> << >>, userId |-> 0]

WithinBounds(d, I) ==
  /\ d.nextId.otp <= I.maxOtps + 1
  /\ d.nextId.session <= I.maxSessions + 1
  /\ d.nextId.note <= I.maxNotes + 1

(* the answer of a request and its writes *)
Answer(o, I) ==
  /\ WithinBounds(o.db, I)
  /\ resp' = o.resp
  /\ users' = o.db.users
  /\ otps' = o.db.otps
  /\ sessions' = o.db.sessions
  /\ notes' = o.db.notes
  /\ nextId' = o.db.nextId
  /\ Track(o, I)
  /\ UNCHANGED <<now, ticks>>

(* a request that no page of the frontend sent *)
Respond(o, I) == Answer(o, I) /\ UNCHANGED clientVars

(* a request handled in one step *)
Apply(o, I) == Respond(o, I) /\ UNCHANGED inflight

(* the browser before anyone signed in: localStorage holds no authToken and no user *)
NoClient == [authToken |-> NoToken, user |-> << >>, page |-> "/signin"]

(* the signup page as it mounts: empty formData, no errors; validated is the history of
   handleGetOtp having checked the formData shown, posted of its having sent them *)
NoErrors == [name |-> "", dateOfBirth |-> "", email |-> ""]

NoForm ==
  [name |-> << >>, dateOfBirth |-> << >>, email |-> << >>, errors |-> NoErrors,
   showOtpField |-> FALSE, apiError |-> "", validated |-> FALSE, posted |-> FALSE]

(* the Dashboard component before its effect ran; status is the history of the answer
   to its GET /api/notes, 0 when none was sent *)
NoDashboard == [isLoading |-> TRUE, notes |-> << >>, status |-> 0]

Init ==
  /\ now = 0
  /\ ticks = 0
  /\ users = {}
  /\ otps = {}
  /\ sessions = {}
  /\ notes = {}
  /\ nextId = EmptyDB.nextId
  /\ resp = NoResp
  /\ inflight = [p \in Procs |-> Idle]
  /\ failed = [k \in NormEmails \X OtpTypes |-> 0]
  /\ consumed = {}
  /\ loggedOut = {}
  /\ owner = {}
  /\ origin = {}
  /\ gone = {}
  /\ issue = {}
  /\ client = NoClient
  /\ signedOut = {}
  /\ form = NoForm
  /\ dashboard = NoDashboard

(* the tokens a client can present: those the server handed out *)
KnownTokens == { s.token : s \in sessions }

(* the Authorization headers of the requests: the known tokens as Bearer, and the malformed ones of I *)
Headers(I) == I.badHeaders \cup { Bearer(token) : token \in KnownTokens }

(* no header, another scheme, and a Bearer string that is no JWT *)
BadHeaders == { NoHeader, BasicHeader, Bearer(GarbageToken) }

NoteIds == 1 .. MaxNotes

Titles == { << >>, << <<>> >>, << <<" ">> >>, << <<"t">> >>, << <<"u", " ">> >> }

Contents == { << >>, << <<>> >>, << <<"c", " ">> >> }

(* I is the record of the sets the inputs of the requests are drawn from *)
Signup(I) ==
  \E name \in I.names, email \in I.emails, dateOfBirth \in I.dobs, mailOk \in I.mailOk, code \in I.codes :
    \E o \in SignupHandler(DB, now, name, email, dateOfBirth, mailOk, code) : Apply(o, I)

SignupVerify(I) ==
  \E email \in I.emails, otp \in I.otps, sessionOk \in I.sessionOk :
    \E o \in SignupVerifyHandler(DB, now, email, otp, sessionOk) : Apply(o, I)

Signin(I) ==
  \E email \in I.emails, mailOk \in I.mailOk, code \in I.codes :
    \E o \in SigninHandler(DB, now, email, mailOk, code) : Apply(o, I)

SigninResend(I) ==
  \E email \in I.emails, mailOk \in I.mailOk, code \in I.codes :
    \E o \in SigninResendHandler(DB, now, email, mailOk, code) : Apply(o, I)

SigninVerify(I) ==
  \E email \in I.emails, otp \in I.otps, keepLoggedIn \in I.keepLoggedIn, sessionOk \in I.sessionOk :
    \E o \in SigninVerifyHandler(DB, now, email, otp, keepLoggedIn, sessionOk) : Apply(o, I)

Logout(I) ==
  \E token \in KnownTokens \cup I.badTokens :
    \E o \in LogoutHandler(DB, token) : Apply(o, I)

GetNotes(I) ==
  \E header \in Headers(I) :
    \E o \in GetNotesHandler(DB, now, header) : Apply(o, I)

CreateNote(I) ==
  \E header \in Headers(I), title \in I.titles, content \in I.contents :
    \E o \in CreateNoteHandler(DB, now, header, title, content) : Apply(o, I)

UpdateNoteReq(I) ==
  \E header \in Headers(I), noteId \in NoteIds, title \in I.newTitles, content \in I.newContents :
    \E o \in UpdateNoteHandler(DB, now, header, noteId, title, content) : Apply(o, I)

DeleteNoteReq(I) ==
  \E header \in Headers(I), noteId \in NoteIds :
    \E o \in DeleteNoteHandler(DB, now, header, noteId) : Apply(o, I)

(* the clock advances between requests *)
Tick(I) ==
  /\ ticks < I.maxTicks
  /\ \E step \in I.steps : now' = now + step
  /\ ticks' = ticks + 1
  /\ resp' = NoResp
  /\ UNCHANGED dbVars
  /\ UNCHANGED histVars
  /\ UNCHANGED inflight
  /\ UNCHANGED clientVars

----------------------------------------------------------------------------
(* OTP attempts: signup and signin of one email, the clock standing still *)

AttemptInputs ==
  [dobs |-> Dobs, emails |-> { <<"A", " ">> }, names |-> { <<"n">> }, otps |-> { <<"1">>, <<"2", " ">> },
   codes |-> Codes, mailOk |-> { TRUE }, sessionOk |-> { TRUE }, keepLoggedIn |-> { FALSE }, titles |-> {}, contents |-> {},
   newTitles |-> {}, newContents |-> {},
   badHeaders |-> {}, badTokens |-> {}, track |-> { "failed" },
   steps |-> {}, maxTicks |-> MaxTicks, maxOtps |-> MaxOtps, maxSessions |-> MaxSessions, maxNotes |-> MaxNotes]

NextAttempts ==
  \/ Signup(AttemptInputs)
  \/ SignupVerify(AttemptInputs)
  \/ Signin(AttemptInputs)
  \/ SigninVerify(AttemptInputs)

SpecAttempts == Init /\ [][NextAttempts]_vars

(* a verify request of the given type, the database answering every call *)
VerifyHandler(type, d, t, email, otp) ==
  IF type = "SIGNUP"
  THEN SignupVerifyHandler(d, t, email, otp, TRUE)
  ELSE SigninVerifyHandler(d, t, email, otp, FALSE, TRUE)

(* C1: once 5 verify requests with a wrong code were rejected against the outstanding
   OTP of an email, a verify request for that OTP, the one with the correct code
   included, is rejected with 'Too many attempts. Please request a new OTP.' and
   creates no user and no session. *)
C1_AttemptLimit ==
  \A email \in AttemptInputs.emails, type \in OtpTypes :
    \A otpRecord \in Outstanding(DB, now, NormalizeEmail(email), type) :
      failed[<<NormalizeEmail(email), type>>] >= AttemptLimit =>
        \A o \in VerifyHandler(type, DB, now, email, otpRecord.code) :
          /\ o.resp.status = 400
          /\ o.resp.msg = "Too many attempts. Please request a new OTP."
          /\ o.db.users = users
          /\ o.db.sessions = sessions

----------------------------------------------------------------------------
(* OTP lifetime: signup and signin of one email, the clock stepping around the OTP expiry *)

OtpSteps == { 1, OtpTtl - 1 }

OtpInputs1 ==
  [dobs |-> Dobs, emails |-> { <<"A", " ">> }, names |-> { <<"n">> }, otps |-> { <<"1">>, <<"2", " ">> },
   codes |-> Codes, mailOk |-> { TRUE }, sessionOk |-> { TRUE }, keepLoggedIn |-> { FALSE }, titles |-> {}, contents |-> {},
   newTitles |-> {}, newContents |-> {},
   badHeaders |-> {}, badTokens |-> {}, track |-> { "consumed" },
   steps |-> OtpSteps, maxTicks |-> MaxTicks, maxOtps |-> MaxOtps, maxSessions |-> MaxSessions, maxNotes |-> MaxNotes]

NextOtp ==
  \/ Signup(OtpInputs1)
  \/ SignupVerify(OtpInputs1)
  \/ Signin(OtpInputs1)
  \/ SigninResend(OtpInputs1)
  \/ SigninVerify(OtpInputs1)
  \/ Tick(OtpInputs1)

SpecOtp == Init /\ [][NextOtp]_vars

(* C24: /api/signin/verify succeeds only on an outstanding SIGNIN row of the email
   and code, creates no user, and the session it creates belongs to the user that
   row was issued to; /api/signup/verify succeeds only on an outstanding SIGNUP row.
   When the only rows of the email and code are of the other type, the answer is
   400 'Invalid or expired OTP' and nothing is written. *)
C24_OtpTypesApart ==
  \A email \in OtpInputs1.emails, otp \in OtpInputs1.otps :
    LET rows(type) == { r \in Outstanding(DB, now, NormalizeEmail(email), type) : r.code = Trim(otp) }
    IN  /\ \A keepLoggedIn \in BOOLEAN :
             \A o \in SigninVerifyHandler(DB, now, email, otp, keepLoggedIn, TRUE) :
               /\ o.db.users = users
               /\ rows("SIGNIN") = {} => (o.resp.status = 400 /\ o.resp.msg = "Invalid or expired OTP" /\ o.db = DB)
               /\ o.resp.status = 200 =>
                    \E r \in rows("SIGNIN") :
                      /\ r.id = o.resp.otpId
                      /\ o.resp.userId = r.userId
                      /\ \E u \in users : u.id = r.userId /\ u.email = r.email
                      /\ \A x \in o.db.sessions \ sessions : x.userId = r.userId
        /\ \A o \in SignupVerifyHandler(DB, now, email, otp, TRUE) :
             /\ rows("SIGNUP") = {} => (o.resp.status = 400 /\ o.resp.msg = "Invalid or expired OTP" /\ o.db = DB)
             /\ o.resp.status = 200 => \E r \in rows("SIGNUP") : r.id = o.resp.otpId

(* /api/signin/verify has refused the code of an outstanding SIGNUP row of the email *)
C24_Witness ==
  /\ resp.op = "signin/verify" /\ resp.status = 400 /\ resp.msg = "Invalid or expired OTP"
  /\ \E r \in Outstanding(DB, now, NormalizeEmail(resp.req.email), "SIGNUP") : r.code = Trim(resp.req.otp)

(* C27: every user row is verified and active, the rows of the users of a state are
   kept as they are by every request that issues an OTP, and no answer of /api/signin
   or /api/signin/resend is 'Please complete signup verification first' or
   'Account is deactivated'. *)
C27_UsersVerifiedAndActive ==
  /\ \A u \in users : u.verified /\ u.isActive
  /\ resp.msg \notin { "Please complete signup verification first", "Account is deactivated" }
  /\ \A email \in OtpInputs1.emails, code \in OtpInputs1.codes, mailOk \in BOOLEAN :
       \A o \in SigninHandler(DB, now, email, mailOk, code) \cup SigninResendHandler(DB, now, email, mailOk, code) :
         /\ o.resp.status \notin { 400, 403 }
         /\ o.db.users = users

(* /api/signin/resend has sent a code to a user, past the checks of verified and isActive *)
C27_Witness ==
  /\ resp.op = "signin/resend" /\ resp.status = 200
  /\ \E u \in users : u.email = NormalizeEmail(resp.req.email) /\ u.verified /\ u.isActive

(* C2: a verify request succeeds only on an OTP issued less than 10 minutes ago;
   when every OTP row with the submitted email, type and code was issued 10 minutes
   ago or longer, the answer is 400 'Invalid or expired OTP' and no user and no
   session is created. *)
C2_OtpExpiry ==
  \A email \in OtpInputs1.emails, otp \in OtpInputs1.otps, type \in OtpTypes :
    LET rows == { r \in otps : r.email = NormalizeEmail(email) /\ r.type = type /\ r.code = Trim(otp) }
    IN  \A o \in VerifyHandler(type, DB, now, email, otp) :
          /\ o.resp.status = 200 => \E r \in rows : now < r.createdAt + OtpTtl
          /\ (\A r \in rows : now >= r.createdAt + OtpTtl) =>
               /\ o.resp.status = 400
               /\ o.resp.msg = "Invalid or expired OTP"
               /\ o.db.users = users
               /\ o.db.sessions = sessions

(* a verify request with the code of a stored, unused OTP was rejected at or after the expiry *)
C2_Witness ==
  /\ resp.op \in VerifyOps
  /\ resp.msg = "Invalid or expired OTP"
  /\ \E r \in otps : /\ r.email = NormalizeEmail(resp.req.email)
                     /\ r.type = OtpTypeOf(resp.op)
                     /\ r.code = Trim(resp.req.otp)
                     /\ ~r.verified
                     /\ now >= r.createdAt + OtpTtl

(* C3: after a verify request succeeded with an (email, code), and until a new OTP of
   that type is issued for the email, every verify request with that email and code is
   rejected with 400 'Invalid or expired OTP'. *)
C3_SingleUse ==
  \A k \in consumed :
    \A email \in OtpInputs1.emails, otp \in OtpInputs1.otps :
      (NormalizeEmail(email) = k[1] /\ Trim(otp) = k[3]) =>
        \A o \in VerifyHandler(k[2], DB, now, email, otp) :
          /\ o.resp.status = 400
          /\ o.resp.msg = "Invalid or expired OTP"
          /\ o.db = DB

(* the code of a used, unexpired OTP was submitted again and rejected *)
C3_Witness ==
  /\ resp.op \in VerifyOps
  /\ resp.msg = "Invalid or expired OTP"
  /\ <<NormalizeEmail(resp.req.email), OtpTypeOf(resp.op), Trim(resp.req.otp)>> \in consumed
  /\ \E r \in otps : /\ r.email = NormalizeEmail(resp.req.email)
                     /\ r.type = OtpTypeOf(resp.op)
                     /\ r.code = Trim(resp.req.otp)
                     /\ r.verified
                     /\ r.expiresAt > now

(* C11: POST /api/signup for an email that has a user answers 409 'User already
   exists', creates no OTP, sends no mail, and leaves the users, the sessions and
   every OTP row that is not expired as they were; it removes nothing but expired
   OTP rows. *)
C11_SignupExistingUser ==
  \A email \in RawEmails, name \in OtpInputs1.names, dateOfBirth \in Dobs,
     mailOk \in BOOLEAN, code \in Codes :
    FindUserByEmail(DB, NormalizeEmail(email)) # {} =>
      \A o \in SignupHandler(DB, now, name, email, dateOfBirth, mailOk, code) :
        /\ o.resp.status = 409
        /\ o.resp.msg = "User already exists"
        /\ o.resp.mailed = << >>
        /\ o.db.nextId = nextId
        /\ o.db.users = users
        /\ o.db.sessions = sessions
        /\ o.db.otps \subseteq otps
        /\ \A r \in otps : r.expiresAt >= now => r \in o.db.otps

(* a signup for the email of an existing user was answered 409 while the used SIGNUP
   OTP of that email, not expired, is still stored *)
C11_Witness ==
  /\ resp.op = "signup"
  /\ resp.status = 409
  /\ \E u \in users : u.email = NormalizeEmail(resp.req.email)
  /\ \E r \in otps : /\ r.email = NormalizeEmail(resp.req.email)
                     /\ r.type = "SIGNUP"
                     /\ r.expiresAt > now

----------------------------------------------------------------------------
(* Sessions: one user signs up, signs in and logs out *)

SecondSteps == { 1, TicksPerSecond }

SessionInputs ==
  [dobs |-> Dobs, emails |-> { <<"A", " ">> }, names |-> { <<"n">> }, otps |-> { <<"1">> },
   codes |-> { <<"1">> }, mailOk |-> { TRUE }, sessionOk |-> { TRUE }, keepLoggedIn |-> BOOLEAN,
   titles |-> { << <<"t">> >> }, contents |-> { << >> },
   newTitles |-> { << <<"t">> >> }, newContents |-> { << >> },
   badHeaders |-> {}, badTokens |-> { NoToken }, track |-> { "loggedOut" },
   steps |-> SecondSteps, maxTicks |-> MaxTicks, maxOtps |-> MaxOtps, maxSessions |-> MaxSessions, maxNotes |-> MaxNotes]

NextSession ==
  \/ Signup(SessionInputs)
  \/ SignupVerify(SessionInputs)
  \/ Signin(SessionInputs)
  \/ SigninVerify(SessionInputs)
  \/ Logout(SessionInputs)
  \/ GetNotes(SessionInputs)
  \/ Tick(SessionInputs)

SpecSession == Init /\ [][NextSession]_vars

(* C25: POST /api/logout with a token answers 'Logged out successfully', sets
   isActive to false on the session of that token and changes no other session and
   no other table, so that every other token is accepted or refused as before; a
   second logout with the token changes nothing more, and a token of no session
   changes nothing at all. *)
C25_LogoutOneSession ==
  \A token \in KnownTokens \cup { GarbageToken, generateToken(1, now + TicksPerSecond) } :
    \A o \in LogoutHandler(DB, token) :
      /\ o.resp.status = 200 /\ o.resp.msg = "Logged out successfully"
      /\ \A s \in sessions :
           IF s.token = token THEN [s EXCEPT !.isActive = FALSE] \in o.db.sessions
                              ELSE s \in o.db.sessions
      /\ Cardinality(o.db.sessions) = Cardinality(sessions)
      /\ o.db.users = users /\ o.db.otps = otps /\ o.db.notes = notes /\ o.db.nextId = nextId
      /\ ~authMiddleware(o.db, now, Bearer(token)).ok
      /\ \A other \in KnownTokens \ { token } :
           authMiddleware(o.db, now, Bearer(other)) = authMiddleware(DB, now, Bearer(other))
      /\ \A again \in LogoutHandler(o.db, token) : again.db = o.db /\ again.resp = o.resp
      /\ token \notin KnownTokens => o.db = DB

(* a logout has deactivated one of two sessions of a user, and the token of the other
   is still accepted *)
C25_Witness ==
  /\ resp.op = "logout" /\ resp.status = 200
  /\ \E s \in sessions, other \in sessions :
       /\ s.token = resp.req.token /\ ~s.isActive
       /\ other.userId = s.userId /\ other.token # s.token
       /\ authMiddleware(DB, now, Bearer(other.token)).ok

----------------------------------------------------------------------------
(* Session lifetime: one user signs up and signs in, the clock stepping around
   the session expiries *)

SessionSteps == { 1, DayTicks - 1, MonthTicks - 1 }

LifetimeInputs ==
  [dobs |-> Dobs, emails |-> { <<"A", " ">> }, names |-> { <<"n">> }, otps |-> { <<"1">> },
   codes |-> { <<"1">> }, mailOk |-> { TRUE }, sessionOk |-> { TRUE }, keepLoggedIn |-> BOOLEAN,
   titles |-> { << <<"t">> >> }, contents |-> { << >> },
   newTitles |-> { << <<"t">> >> }, newContents |-> { << >> },
   badHeaders |-> {}, badTokens |-> {}, track |-> { "origin" },
   steps |-> SessionSteps, maxTicks |-> MaxTicks, maxOtps |-> MaxOtps, maxSessions |-> MaxSessions, maxNotes |-> MaxNotes]

NextLifetime ==
  \/ Signup(LifetimeInputs)
  \/ SignupVerify(LifetimeInputs)
  \/ Signin(LifetimeInputs)
  \/ SigninVerify(LifetimeInputs)
  \/ GetNotes(LifetimeInputs)
  \/ Tick(LifetimeInputs)

SpecLifetime == Init /\ [][NextLifetime]_vars

(* every outcome of every notes request that carries the header *)
NotesRequests(I, d, t, header) ==
  UNION { GetNotesHandler(d, t, header),
          UNION { CreateNoteHandler(d, t, header, title, content) :
                  title \in I.titles, content \in I.contents },
          UNION { UpdateNoteHandler(d, t, header, noteId, title, content) :
                  noteId \in NoteIds, title \in I.newTitles, content \in I.newContents },
          UNION { DeleteNoteHandler(d, t, header, noteId) : noteId \in NoteIds } }

(* C5: once logout answered 'Logged out successfully' for a token, every notes
   request with that token is answered 401, whatever happened since. *)
C5_LogoutIsPermanent ==
  \A token \in loggedOut :
    \A o \in NotesRequests(SessionInputs, DB, now, Bearer(token)) :
      o.resp.status = 401 /\ o.db = DB

(* a notes request was refused for a logged-out token whose session and JWT are not expired *)
C5_Witness ==
  /\ resp.op \in NotesOps
  /\ resp.status = 401
  /\ resp.req.header.token \in loggedOut
  /\ verifyToken(resp.req.header.token, now) # << >>
  /\ \E s \in sessions : s.token = resp.req.header.token /\ s.expiresAt > now

(* C9: when a verify request answers success with token t and user u, a session row
   with token t, owner u, isActive and an expiry in the future exists, t decodes to
   u, and a notes request with Bearer t is authenticated as u. *)
C9_TokenIssuance ==
  (resp.op \in VerifyOps /\ resp.status = 200) =>
    /\ resp.user # << >>
    /\ \E u \in users : PublicUser(u) = resp.user
    /\ \E s \in sessions : /\ s.token = resp.token
                           /\ s.userId = resp.user[1].id
                           /\ s.isActive
                           /\ s.expiresAt > now
    /\ verifyToken(resp.token, now) = << resp.user[1].id >>
    /\ authMiddleware(DB, now, Bearer(resp.token)).ok
    /\ authMiddleware(DB, now, Bearer(resp.token)).userId = resp.user[1].id
    /\ \A o \in GetNotesHandler(DB, now, Bearer(resp.token)) :
         o.resp.status = 200 /\ o.resp.userId = resp.user[1].id

(* a signin was verified for a user who already held a session from signup *)
C9_Witness ==
  /\ resp.op = "signin/verify"
  /\ resp.status = 200
  /\ Cardinality(sessions) = 2

(* the lifetime of a session by the request that created it *)
Lifetime(op, keepLoggedIn) ==
  IF op = "signin/verify" /\ ~keepLoggedIn THEN DayTicks ELSE MonthTicks

(* C10 as stated: a session that was never logged out is accepted by authMiddleware
   exactly until 24 hours (signin without keepLoggedIn) or 30 days (signin with
   keepLoggedIn, signup) after its creation. *)
C10_AsStated ==
  \A g \in origin : \A s \in sessions :
    (s.id = g[1] /\ s.isActive) =>
      (authMiddleware(DB, now, Bearer(s.token)).ok <=> now < s.createdAt + Lifetime(g[2], g[3]))

(* C10, amended: a session that was never logged out is accepted exactly while the
   clock is before its creation time plus 24 hours or 30 days and before 30 days
   after the whole second in which its token was signed; at or after the creation
   time plus 24 hours or 30 days it is refused. *)
C10_Lifetime ==
  \A g \in origin : \A s \in sessions :
    (s.id = g[1] /\ s.isActive) =>
      LET accepted == authMiddleware(DB, now, Bearer(s.token)).ok
          wholeSecond == (s.createdAt \div TicksPerSecond) * TicksPerSecond
      IN  /\ accepted <=> (/\ now < s.createdAt + Lifetime(g[2], g[3])
                           /\ now < wholeSecond + MonthTicks)
          /\ now >= s.createdAt + Lifetime(g[2], g[3]) =>
               \A o \in NotesRequests(LifetimeInputs, DB, now, Bearer(s.token)) : o.resp.status = 401

(* a notes request was refused 24 hours after a signin without keepLoggedIn,
   the session never logged out *)
C10_Witness ==
  /\ resp.op \in NotesOps
  /\ resp.status = 401
  /\ \E g \in origin : \E s \in sessions :
       /\ s.id = g[1]
       /\ g[2] = "signin/verify"
       /\ ~g[3]
       /\ s.token = resp.req.header.token
       /\ s.isActive
       /\ now = s.createdAt + DayTicks

----------------------------------------------------------------------------
(* Notes: two users sign up and read, create, update and delete notes *)

NotesSteps == { 1 }

NotesInputs ==
  [dobs |-> Dobs, emails |-> { <<"a">>, <<"B">> }, names |-> { <<"n">> }, otps |-> { <<"1">> },
   codes |-> { <<"1">> }, mailOk |-> { TRUE }, sessionOk |-> { TRUE }, keepLoggedIn |-> { FALSE },
   titles |-> { << <<"t">> >> }, contents |-> { << >> },
   newTitles |-> { << <<"u", " ">> >> }, newContents |-> { << >> },
   badHeaders |-> {}, badTokens |-> {}, track |-> { "owner", "gone" },
   steps |-> NotesSteps, maxTicks |-> NotesMaxTicks, maxOtps |-> NotesMaxOtps, maxSessions |-> MaxSessions, maxNotes |-> MaxNotes]

NextNotes ==
  \/ Signup(NotesInputs)
  \/ SignupVerify(NotesInputs)
  \/ GetNotes(NotesInputs)
  \/ CreateNote(NotesInputs)
  \/ UpdateNoteReq(NotesInputs)
  \/ DeleteNoteReq(NotesInputs)
  \/ Tick(NotesInputs)

SpecNotes == Init /\ [][NextNotes]_vars

(* the body fields the properties range over: absent, empty, blank, and with text *)
AllBodies ==
  [NotesInputs EXCEPT !.titles = Titles, !.contents = Contents, !.newTitles = Titles, !.newContents = Contents]

----------------------------------------------------------------------------
(* Authorization of the notes endpoints: one user with a 30 day and a 24 hour
   session writes notes and logs out, the clock stepping past the expiries *)

AuthzSteps == { TicksPerSecond, DayTicks, MonthTicks }

AuthzInputs ==
  [dobs |-> Dobs, emails |-> { <<"A", " ">> }, names |-> { <<"n">> }, otps |-> { <<"1">> },
   codes |-> { <<"1">> }, mailOk |-> { TRUE }, sessionOk |-> { TRUE }, keepLoggedIn |-> { FALSE },
   titles |-> { << <<"t">> >> }, contents |-> { << >> },
   newTitles |-> { << <<"u", " ">> >> }, newContents |-> { << >> },
   badHeaders |-> { NoHeader }, badTokens |-> {}, track |-> {},
   steps |-> AuthzSteps, maxTicks |-> AuthzMaxTicks, maxOtps |-> AuthzMaxOtps,
   maxSessions |-> MaxSessions, maxNotes |-> AuthzMaxNotes]

NextAuthz ==
  \/ Signup(AuthzInputs)
  \/ SignupVerify(AuthzInputs)
  \/ Signin(AuthzInputs)
  \/ SigninVerify(AuthzInputs)
  \/ Logout(AuthzInputs)
  \/ GetNotes(AuthzInputs)
  \/ CreateNote(AuthzInputs)
  \/ DeleteNoteReq(AuthzInputs)
  \/ Tick(AuthzInputs)

SpecAuthz == Init /\ [][NextAuthz]_vars

(* C4: a notes request whose Authorization header is not 'Bearer t' with t a valid
   session JWT and a session row with token t, isActive and expiresAt after now is
   answered 401 and reads, creates, changes and deletes no note; the handler runs
   only for the other requests. *)
C4_NotesNeedSession ==
  \A header \in Headers(AuthzInputs) \cup BadHeaders :
    LET authorized ==
          /\ header.present
          /\ header.scheme = "Bearer"
          /\ verifyToken(header.token, now) # << >>
          /\ \E s \in sessions : s.token = header.token /\ s.isActive /\ s.expiresAt > now
    IN  \A o \in NotesRequests(AuthzInputs, DB, now, header) :
          IF authorized
          THEN o.resp.status # 401
          ELSE /\ o.resp.status = 401
               /\ o.db = DB
               /\ o.resp.notes = << >>
               /\ o.resp.note = << >>

(* a notes request with the token of a session that expired after 24 hours, never
   logged out, was refused while a note exists *)
C4_Witness ==
  /\ resp.op \in NotesOps
  /\ resp.status = 401
  /\ notes # {}
  /\ verifyToken(resp.req.header.token, now) # << >>
  /\ \E s \in sessions : s.token = resp.req.header.token /\ s.isActive /\ s.expiresAt <= now

(* the user a Bearer token's session belongs to *)
SessionUser(token) == { s.userId : s \in { x \in sessions : x.token = token } }

(* C6: GET /api/notes authenticated as u returns the notes owned by u, each once,
   none of another user, newest first. *)
C6_ReadIsolation ==
  \A header \in Headers(NotesInputs) :
    \A o \in GetNotesHandler(DB, now, header) :
      o.resp.status = 200 =>
        LET list == o.resp.notes
        IN  /\ SessionUser(header.token) = { o.resp.userId }
            /\ { list[i] : i \in DOMAIN list } = { n \in notes : n.userId = o.resp.userId }
            /\ Len(list) = Cardinality({ n \in notes : n.userId = o.resp.userId })
            /\ \A i, k \in DOMAIN list : i < k => list[i].createdAt >= list[k].createdAt

(* a GET returned the caller's notes while another user's note exists *)
C6_Witness ==
  /\ resp.op = "GET /api/notes"
  /\ resp.status = 200
  /\ Len(resp.notes) >= 1
  /\ \E n \in notes : n.userId # resp.userId

(* the PUT and DELETE requests on noteId with the header *)
WriteRequests(I, d, t, header, noteId) ==
  UNION { UNION { UpdateNoteHandler(d, t, header, noteId, title, content) :
                  title \in I.newTitles, content \in I.newContents },
          DeleteNoteHandler(d, t, header, noteId) }

(* C7 as stated: a PUT or DELETE authenticated as u on a note of another user is
   answered 404 'Note not found' and leaves the notes unchanged; the owner of every
   note is the user who created it. *)
C7_AsStated ==
  /\ \A n \in notes : <<n.id, n.userId>> \in owner
  /\ \A header \in Headers(NotesInputs) : \A n \in notes :
       LET auth == authMiddleware(DB, now, header)
       IN  (auth.ok /\ n.userId # auth.userId) =>
             \A o \in WriteRequests(AllBodies, DB, now, header, n.id) :
               /\ o.resp.status = 404
               /\ o.resp.msg = "Note not found"
               /\ o.db.notes = notes

(* C7, amended: a DELETE, or a PUT that carries a non-empty title or a content field,
   authenticated as u on a note of another user is answered 404 'Note not found'; a
   PUT that carries neither is answered 400; both leave the notes unchanged; the
   owner of every note is the user who created it. *)
C7_WriteIsolation ==
  /\ \A n \in notes : <<n.id, n.userId>> \in owner
  /\ \A header \in Headers(NotesInputs) : \A n \in notes :
       LET auth == authMiddleware(DB, now, header)
       IN  (auth.ok /\ n.userId # auth.userId) =>
             \A o \in WriteRequests(AllBodies, DB, now, header, n.id) :
               /\ o.db.notes = notes
               /\ IF /\ o.resp.op = "PUT /api/notes/:id"
                     /\ ~FieldTruthy(o.resp.req.title)
                     /\ o.resp.req.content = << >>
                  THEN o.resp.status = 400
                  ELSE o.resp.status = 404 /\ o.resp.msg = "Note not found"

(* a PUT or DELETE on another user's note was answered 404 *)
C7_Witness ==
  /\ resp.op \in { "PUT /api/notes/:id", "DELETE /api/notes/:id" }
  /\ resp.status = 404
  /\ \E n \in notes : n.id = resp.req.noteId /\ n.userId # resp.userId /\ <<n.id, n.userId>> \in owner

(* C18 as stated: a successful DELETE /api/notes/:id removes the one note, which is
   the caller's, and leaves all other notes of this and of other users unchanged;
   after it answered 'Note deleted successfully', the note is stored no more, no later
   GET lists it, and every later PUT or DELETE on the id is answered 404 and changes
   nothing. *)
C18_AsStated ==
  /\ \A header \in Headers(NotesInputs), noteId \in NoteIds :
       \A o \in DeleteNoteHandler(DB, now, header, noteId) :
         o.resp.status = 200 =>
           /\ o.resp.msg = "Note deleted successfully"
           /\ \E n \in notes : /\ n.id = noteId
                                /\ n.userId = o.resp.userId
                                /\ o.db.notes = notes \ { n }
           /\ o.db.users = users /\ o.db.otps = otps /\ o.db.sessions = sessions
  /\ \A noteId \in gone :
       /\ \A n \in notes : n.id # noteId
       /\ \A header \in Headers(NotesInputs) :
            /\ \A o \in GetNotesHandler(DB, now, header) :
                 \A i \in DOMAIN o.resp.notes : o.resp.notes[i].id # noteId
            /\ \A o \in WriteRequests(AllBodies, DB, now, header, noteId) :
                 /\ o.db = DB
                 /\ authMiddleware(DB, now, header).ok =>
                      o.resp.status = 404 /\ o.resp.msg = "Note not found"

(* C18, amended: as stated, except that a later PUT on the id that carries neither a
   non-empty title nor a content field is answered 400 instead of 404. *)
C18_DeleteEffects ==
  /\ \A header \in Headers(NotesInputs), noteId \in NoteIds :
       \A o \in DeleteNoteHandler(DB, now, header, noteId) :
         o.resp.status = 200 =>
           /\ o.resp.msg = "Note deleted successfully"
           /\ \E n \in notes : /\ n.id = noteId
                                /\ n.userId = o.resp.userId
                                /\ o.db.notes = notes \ { n }
           /\ o.db.users = users /\ o.db.otps = otps /\ o.db.sessions = sessions
  /\ \A noteId \in gone :
       /\ \A n \in notes : n.id # noteId
       /\ \A header \in Headers(NotesInputs) :
            /\ \A o \in GetNotesHandler(DB, now, header) :
                 \A i \in DOMAIN o.resp.notes : o.resp.notes[i].id # noteId
            /\ \A o \in WriteRequests(AllBodies, DB, now, header, noteId) :
                 /\ o.db = DB
                 /\ authMiddleware(DB, now, header).ok =>
                      IF /\ o.resp.op = "PUT /api/notes/:id"
                         /\ ~FieldTruthy(o.resp.req.title)
                         /\ o.resp.req.content = << >>
                      THEN o.resp.status = 400
                      ELSE o.resp.status = 404 /\ o.resp.msg = "Note not found"

(* a PUT or DELETE by the owner on the id of a note the owner deleted was answered
   404 while another note is stored *)
C18_Witness ==
  /\ resp.op \in { "PUT /api/notes/:id", "DELETE /api/notes/:id" }
  /\ resp.status = 404
  /\ resp.req.noteId \in gone
  /\ << resp.req.noteId, resp.userId >> \in owner
  /\ notes # {}

----------------------------------------------------------------------------
(* Interleaved requests: /api/signup and /api/signup/verify handled one await at a
   time, several requests in flight *)

ConcInputs ==
  [dobs |-> Dobs, emails |-> { <<"a">>, <<"A", " ">> }, names |-> { <<"n">> }, otps |-> { <<"1">> },
   codes |-> { <<"1">> }, mailOk |-> { TRUE }, sessionOk |-> { TRUE }, keepLoggedIn |-> { FALSE },
   titles |-> {}, contents |-> {},
   newTitles |-> {}, newContents |-> {}, badHeaders |-> {}, badTokens |-> {}, track |-> {},
   steps |-> {}, maxTicks |-> 0, maxOtps |-> ConcMaxOtps,
   maxSessions |-> MaxSessions, maxNotes |-> MaxNotes]

(* a step that writes the database and answers nothing yet *)
Silent(d, I) ==
  /\ WithinBounds(d, I)
  /\ users' = d.users
  /\ otps' = d.otps
  /\ sessions' = d.sessions
  /\ notes' = d.notes
  /\ nextId' = d.nextId
  /\ UNCHANGED <<resp, now, ticks>>
  /\ UNCHANGED histVars
  /\ UNCHANGED clientVars

Goto(p, local) == inflight' = [inflight EXCEPT ![p] = local]

(* POST /api/signup up to the first await: the body check, then cleanupExpiredOtps *)
SignupStart(p, I) ==
  /\ inflight[p].pc = "idle"
  /\ \E name \in I.names, email \in I.emails, dateOfBirth \in I.dobs, code \in I.codes :
       IF ~Truthy(name) \/ ~Truthy(email) \/ ~Truthy(dateOfBirth)
       THEN /\ \E o \in SignupHandler(DB, now, name, email, dateOfBirth, TRUE, code) : Respond(o, I)
            /\ Goto(p, Idle)
       ELSE /\ Silent(cleanupExpiredOtps(DB, now), I)
            /\ Goto(p, [Idle EXCEPT !.pc = "findUser", !.req = [NoReq EXCEPT !.email = email],
                                    !.name = name, !.dateOfBirth = dateOfBirth, !.code = code])

(* prisma.user.findUnique and the 409 answer *)
SignupFindUser(p, I) ==
  /\ inflight[p].pc = "findUser"
  /\ IF FindUserByEmail(DB, NormalizeEmail(inflight[p].req.email)) # {}
     THEN /\ Respond(Outcome(Response("signup", 409, "User already exists", inflight[p].req), DB), I)
          /\ Goto(p, Idle)
     ELSE /\ Silent(DB, I)
          /\ Goto(p, [inflight[p] EXCEPT !.pc = "deleteOtps"])

(* prisma.otp.deleteMany of the SIGNUP OTPs of the email *)
SignupDeleteOtps(p, I) ==
  /\ inflight[p].pc = "deleteOtps"
  /\ Silent(DeleteOtps(DB, NormalizeEmail(inflight[p].req.email), "SIGNUP"), I)
  /\ Goto(p, [inflight[p] EXCEPT !.pc = "createOtp"])

(* generateOTP and prisma.otp.create *)
SignupCreateOtp(p, I) ==
  LET e == NormalizeEmail(inflight[p].req.email)
      data == << [name |-> Trim(inflight[p].name), email |-> e, dateOfBirth |-> inflight[p].dateOfBirth] >>
  IN  /\ inflight[p].pc = "createOtp"
      /\ Silent(CreateOtp(DB, now, inflight[p].code, e, "SIGNUP", now + OtpTtl, 0, data), I)
      /\ Goto(p, [inflight[p] EXCEPT !.pc = "sendMail"])

(* sendOTPEmail and the answer *)
SignupSendMail(p, I) ==
  /\ inflight[p].pc = "sendMail"
  /\ \E mailOk \in I.mailOk :
       Respond(Outcome(IF mailOk
                       THEN [Response("signup", 200, "OTP sent to your email", inflight[p].req)
                              EXCEPT !.mailed = << [to |-> NormalizeEmail(inflight[p].req.email),
                                                    code |-> inflight[p].code, type |-> "SIGNUP"] >>]
                       ELSE Response("signup", 500, "Signup failed. Please try again.", inflight[p].req),
                       DB), I)
  /\ Goto(p, Idle)

(* POST /api/signup/verify up to the transaction: the body check, prisma.otp.findFirst,
   and the checks on the row it returned *)
SignupVerifyStart(p, I) ==
  /\ inflight[p].pc = "idle"
  /\ \E email \in I.emails, otp \in I.otps :
       LET req == [NoReq EXCEPT !.email = email, !.otp = otp]
           found == FindOtp(DB, now, NormalizeEmail(email), Trim(otp), "SIGNUP")
       IN  IF ~Truthy(email) \/ ~Truthy(otp) \/ found = {}
           THEN /\ \E o \in SignupVerifyHandler(DB, now, email, otp, TRUE) : Respond(o, I)
                /\ Goto(p, Idle)
           ELSE \E otpRecord \in found :
                  IF SignupVerifyCheck(req, otpRecord) # << >>
                  THEN /\ Respond(SignupVerifyOn(DB, now, req, otpRecord, TRUE), I)
                       /\ Goto(p, Idle)
                  ELSE /\ Silent(DB, I)
                       /\ Goto(p, [Idle EXCEPT !.pc = "tx", !.req = req, !.otpRecord = << otpRecord >>])

(* prisma.$transaction *)
SignupVerifyTxStep(p, I) ==
  LET tx == SignupVerifyTx(DB, inflight[p].otpRecord[1])
  IN  /\ inflight[p].pc = "tx"
      /\ IF tx = << >>
         THEN /\ Respond(Outcome([Response("signup/verify", 500, "Verification failed", inflight[p].req)
                                    EXCEPT !.otpId = inflight[p].otpRecord[1].id], DB), I)
              /\ Goto(p, Idle)
         ELSE /\ Silent(tx[1].db, I)
              /\ Goto(p, [inflight[p] EXCEPT !.pc = "session", !.user = << tx[1].user >>])

(* generateToken, prisma.session.create and the answer *)
SignupVerifySessionStep(p, I) ==
  /\ inflight[p].pc = "session"
  /\ \E sessionOk \in I.sessionOk :
       Respond([SignupVerifySession(DB, now, inflight[p].req, inflight[p].user[1], sessionOk)
                 EXCEPT !.resp.otpId = inflight[p].otpRecord[1].id], I)
  /\ Goto(p, Idle)

NextConc ==
  \E p \in Procs :
    \/ SignupStart(p, ConcInputs)
    \/ SignupFindUser(p, ConcInputs)
    \/ SignupDeleteOtps(p, ConcInputs)
    \/ SignupCreateOtp(p, ConcInputs)
    \/ SignupSendMail(p, ConcInputs)
    \/ SignupVerifyStart(p, ConcInputs)
    \/ SignupVerifyTxStep(p, ConcInputs)
    \/ SignupVerifySessionStep(p, ConcInputs)

SpecConc == Init /\ [][NextConc]_vars

(* C8: whatever the interleaving of /api/signup and /api/signup/verify requests, no
   two user rows have the same normalized email. *)
C8_OneUserPerEmail ==
  \A u1, u2 \in users : NormalizeEmail(u1.email) = NormalizeEmail(u2.email) => u1 = u2

(* two verify requests for one email were in flight past findFirst, one created the
   user, and the other was answered 500 *)
C8_Witness ==
  /\ resp.op = "signup/verify"
  /\ resp.status = 500
  /\ \E u \in users : u.email = NormalizeEmail(resp.req.email)
  /\ \E p \in Procs : inflight[p].pc = "session"

(* C13: in every reachable state, those reached by interleaved issue requests for one
   email included, there is at most one OTP row per (email, type), so only the most
   recently issued code of a type can be verified. *)
C13_OneOtpPerEmailAndType ==
  \A r1, r2 \in otps : (r1.email = r2.email /\ r1.type = r2.type) => r1 = r2

----------------------------------------------------------------------------
(* Interleaved /api/signin/verify requests: one user signs up and signs in, then
   several verify requests are handled one await at a time while the clock moves *)

RaceSteps == { TicksPerSecond }

RaceInputs ==
  [dobs |-> Dobs, emails |-> { <<"A", " ">> }, names |-> { <<"n">> }, otps |-> { <<"1">> },
   codes |-> { <<"1">> }, mailOk |-> { TRUE }, sessionOk |-> { TRUE }, keepLoggedIn |-> { FALSE },
   titles |-> {}, contents |-> {},
   newTitles |-> {}, newContents |-> {}, badHeaders |-> {}, badTokens |-> {}, track |-> { "origin" },
   steps |-> RaceSteps, maxTicks |-> RaceMaxTicks, maxOtps |-> RaceMaxOtps,
   maxSessions |-> RaceMaxSessions, maxNotes |-> MaxNotes]

(* POST /api/signin/verify up to prisma.otp.update: the body check, prisma.otp.findFirst
   with the user, and the checks on the row it returned *)
SigninVerifyStart(p, I) ==
  /\ inflight[p].pc = "idle"
  /\ \E email \in I.emails, otp \in I.otps, keepLoggedIn \in I.keepLoggedIn :
       LET req == [NoReq EXCEPT !.email = email, !.otp = otp, !.keepLoggedIn = keepLoggedIn]
           found == FindOtp(DB, now, NormalizeEmail(email), Trim(otp), "SIGNIN")
       IN  IF ~Truthy(email) \/ ~Truthy(otp) \/ found = {}
           THEN /\ \E o \in SigninVerifyHandler(DB, now, email, otp, keepLoggedIn, TRUE) : Respond(o, I)
                /\ Goto(p, Idle)
           ELSE \E otpRecord \in found :
                  IF OtpUser(DB, otpRecord) = << >> \/ otpRecord.attempts >= AttemptLimit
                  THEN /\ Respond(SigninVerifyOn(DB, now, req, otpRecord, TRUE), I)
                       /\ Goto(p, Idle)
                  ELSE /\ Silent(DB, I)
                       /\ Goto(p, [Idle EXCEPT !.pc = "consume", !.req = req,
                                               !.otpRecord = << otpRecord >>,
                                               !.user = OtpUser(DB, otpRecord)])

(* prisma.otp.update({ where: { id }, data: { verified: true } }) *)
SigninVerifyConsumeStep(p, I) ==
  LET updated == ConsumeOtp(DB, inflight[p].otpRecord[1].id)
  IN  /\ inflight[p].pc = "consume"
      /\ IF updated = << >>
         THEN /\ Respond(Outcome([Response("signin/verify", 500, "Signin failed", inflight[p].req)
                                    EXCEPT !.otpId = inflight[p].otpRecord[1].id], DB), I)
              /\ Goto(p, Idle)
         ELSE /\ Silent(updated[1], I)
              /\ Goto(p, [inflight[p] EXCEPT !.pc = "signinSession"])

(* generateToken, prisma.session.create and the answer *)
SigninVerifySessionStep(p, I) ==
  /\ inflight[p].pc = "signinSession"
  /\ \E sessionOk \in I.sessionOk :
       Respond([SigninVerifySession(DB, now, inflight[p].req, inflight[p].user[1], sessionOk)
                 EXCEPT !.resp.otpId = inflight[p].otpRecord[1].id], I)
  /\ Goto(p, Idle)

NextRace ==
  \/ Signup(RaceInputs)
  \/ SignupVerify(RaceInputs)
  \/ Signin(RaceInputs)
  \/ Tick(RaceInputs)
  \/ \E p \in Procs :
       \/ SigninVerifyStart(p, RaceInputs)
       \/ SigninVerifyConsumeStep(p, RaceInputs)
       \/ SigninVerifySessionStep(p, RaceInputs)

SpecRace == Init /\ [][NextRace]_vars

(* C12: whatever the interleaving of /api/signin/verify requests with the correct
   code of one SIGNIN OTP, at most one of them answers success and at most one
   session row is created from that OTP. *)
C12_OneSessionPerOtp ==
  \A g, h \in origin :
    (g[2] = "signin/verify" /\ h[2] = "signin/verify" /\ g[4] = h[4]) => g = h

----------------------------------------------------------------------------
(* Failing writes: one user signs up and signs in while prisma.session.create may
   reject, the clock moving within and across seconds *)

FaultInputs ==
  [dobs |-> Dobs, emails |-> { <<"A", " ">> }, names |-> { <<"n">> }, otps |-> { <<"1">> },
   codes |-> { <<"1">> }, mailOk |-> { TRUE }, sessionOk |-> BOOLEAN, keepLoggedIn |-> { FALSE },
   titles |-> {}, contents |-> {},
   newTitles |-> {}, newContents |-> {}, badHeaders |-> {}, badTokens |-> {}, track |-> {},
   steps |-> SecondSteps, maxTicks |-> FaultMaxTicks, maxOtps |-> MaxOtps,
   maxSessions |-> MaxSessions, maxNotes |-> MaxNotes]

NextFault ==
  \/ Signup(FaultInputs)
  \/ SignupVerify(FaultInputs)
  \/ Signin(FaultInputs)
  \/ SigninVerify(FaultInputs)
  \/ Tick(FaultInputs)

SpecFault == Init /\ [][NextFault]_vars

(* C14: whenever POST /api/signup/verify answers an error (400 or 500), the users, the
   otps and the sessions are as they were before the request: no user was created
   and the OTP is not marked verified. *)
C14_SignupVerifyAllOrNothing ==
  \A email \in FaultInputs.emails, otp \in FaultInputs.otps, sessionOk \in FaultInputs.sessionOk :
    \A o \in SignupVerifyHandler(DB, now, email, otp, sessionOk) :
      o.resp.status # 200 =>
        /\ o.db.users = users
        /\ o.db.otps = otps
        /\ o.db.sessions = sessions

(* C15: whenever POST /api/signin/verify answers an error (400 or 500), no session was
   created and no OTP that was unused before the request is marked verified, so the
   same code can still succeed. *)
C15_SigninVerifyAllOrNothing ==
  \A email \in FaultInputs.emails, otp \in FaultInputs.otps, keepLoggedIn \in BOOLEAN :
    \A o \in SigninVerifyHandler(DB, now, email, otp, keepLoggedIn, TRUE) :
      o.resp.status # 200 =>
        /\ o.db.sessions = sessions
        /\ \A r \in otps : ~r.verified => \E q \in o.db.otps : q.id = r.id /\ ~q.verified

----------------------------------------------------------------------------
(* Editing: one user signs up and creates, updates and deletes notes, with titles and
   contents that are absent, blank, or text with spaces around it *)

EditInputs ==
  [dobs |-> Dobs, emails |-> { <<"a">> }, names |-> { <<"n">> }, otps |-> { <<"1">> },
   codes |-> { <<"1">> }, mailOk |-> { TRUE }, sessionOk |-> { TRUE }, keepLoggedIn |-> { FALSE },
   titles |-> { << <<" ">> >>, << <<"t">> >> }, contents |-> { << >>, << <<"c", " ">> >> },
   newTitles |-> { << >>, << <<" ">> >>, << <<"u", " ">> >> }, newContents |-> { << >>, << << >> >> },
   badHeaders |-> {}, badTokens |-> {}, track |-> {},
   steps |-> {}, maxTicks |-> 0, maxOtps |-> EditMaxOtps, maxSessions |-> MaxSessions, maxNotes |-> MaxNotes]

NextEdit ==
  \/ Signup(EditInputs)
  \/ SignupVerify(EditInputs)
  \/ GetNotes(EditInputs)
  \/ CreateNote(EditInputs)
  \/ UpdateNoteReq(EditInputs)
  \/ DeleteNoteReq(EditInputs)

SpecEdit == Init /\ [][NextEdit]_vars

(* C16: after any sequence of POST /api/notes and PUT /api/notes/:id requests, every
   stored note has a title that is not empty and has no space at either end. *)
C16_TitleRequired ==
  \A n \in notes : n.title # << >> /\ Trim(n.title) = n.title

(* C17: PUT /api/notes/:id changes only the supplied fields: a request without a
   content field leaves the content, a request without a title field leaves the
   title; a supplied non-empty title and a supplied content are stored trimmed; the
   note's id, owner and createdAt and every other note, and the other tables, stay
   as they were; a request with neither field is answered 400 and changes nothing. *)
C17_PartialUpdate ==
  \A header \in Headers(EditInputs), n \in notes, title \in Titles, content \in Contents :
    authMiddleware(DB, now, header).userId = n.userId =>
      \A o \in UpdateNoteHandler(DB, now, header, n.id, title, content) :
        IF title = << >> /\ content = << >>
        THEN o.resp.status = 400 /\ o.db = DB
        ELSE /\ o.resp.status \in { 200, 400 }
             /\ o.resp.status = 400 => o.db = DB
             /\ o.db.users = users /\ o.db.otps = otps /\ o.db.sessions = sessions
             /\ { x \in o.db.notes : x.id # n.id } = { x \in notes : x.id # n.id }
             /\ \E x \in o.db.notes :
                  /\ x.id = n.id
                  /\ x.userId = n.userId
                  /\ x.createdAt = n.createdAt
                  /\ title = << >> => x.title = n.title
                  /\ content = << >> => x.content = n.content
                  /\ title # << >> => x.title \in { n.title, Trim(title[1]) }
                  /\ (o.resp.status = 200 /\ FieldTruthy(title)) => x.title = Trim(title[1])
                  /\ (o.resp.status = 200 /\ content # << >>) => x.content = Trim(content[1])

(* a PUT with a title and no content field was answered 200 on a note that has a
   content, while the user has another note *)
C17_Witness ==
  /\ resp.op = "PUT /api/notes/:id"
  /\ resp.status = 200
  /\ resp.req.title # << >>
  /\ resp.req.content = << >>
  /\ resp.note # << >>
  /\ resp.note[1].content # << >>
  /\ resp.note[1] \in notes
  /\ Cardinality(notes) = 2

----------------------------------------------------------------------------
(* Interleaved PUT and DELETE requests on the notes of one user, handled one await
   at a time *)

NoteRaceInputs ==
  [dobs |-> Dobs, emails |-> { <<"a">> }, names |-> { <<"n">> }, otps |-> { <<"1">> },
   codes |-> { <<"1">> }, mailOk |-> { TRUE }, sessionOk |-> { TRUE }, keepLoggedIn |-> { FALSE },
   titles |-> { << <<"t">> >> }, contents |-> { << >> },
   newTitles |-> { << >>, << <<"u", " ">> >> }, newContents |-> { << >> },
   badHeaders |-> { NoHeader }, badTokens |-> {}, track |-> { "gone" },
   steps |-> {}, maxTicks |-> 0, maxOtps |-> EditMaxOtps, maxSessions |-> MaxSessions,
   maxNotes |-> NoteRaceMaxNotes]

(* authMiddleware, and for PUT the check of the body; the answer when either refuses *)
NoteWriteStart(p, I, op, req, refused, next) ==
  LET auth == authMiddleware(DB, now, req.header)
  IN  /\ inflight[p].pc = "idle"
      /\ IF ~auth.ok
         THEN /\ Respond(Outcome(Response(op, auth.status, auth.msg, req), DB), I)
              /\ Goto(p, Idle)
         ELSE IF refused
         THEN /\ Respond(Outcome([Response(op, 400, "Title or content is required", req)
                                    EXCEPT !.userId = auth.userId], DB), I)
              /\ Goto(p, Idle)
         ELSE /\ Silent(DB, I)
              /\ Goto(p, [Idle EXCEPT !.pc = next, !.req = req, !.userId = auth.userId])

UpdateNoteStart(p, I) ==
  \E header \in Headers(I), noteId \in NoteIds, title \in I.newTitles, content \in I.newContents :
    NoteWriteStart(p, I, "PUT /api/notes/:id",
                   [NoReq EXCEPT !.header = header, !.noteId = noteId, !.title = title, !.content = content],
                   ~FieldTruthy(title) /\ content = << >>, "updateFind")

(* prisma.note.findFirst({ where: { id: noteId, userId } }) and the 404 answer *)
UpdateNoteFind(p, I) ==
  /\ inflight[p].pc = "updateFind"
  /\ IF FindNote(DB, inflight[p].req.noteId, inflight[p].userId) = {}
     THEN /\ Respond(Outcome([Response("PUT /api/notes/:id", 404, "Note not found", inflight[p].req)
                                EXCEPT !.userId = inflight[p].userId], DB), I)
          /\ Goto(p, Idle)
     ELSE /\ Silent(DB, I)
          /\ Goto(p, [inflight[p] EXCEPT !.pc = "updateWrite"])

(* prisma.note.update and the answer; the catch answers 500 when it throws *)
UpdateNoteWrite(p, I) ==
  LET req == inflight[p].req
      R(status, msg) == [Response("PUT /api/notes/:id", status, msg, req) EXCEPT !.userId = inflight[p].userId]
      updated == UpdateNote(DB, req.noteId, req.title, req.content)
  IN  /\ inflight[p].pc = "updateWrite"
      /\ IF updated = << >>
         THEN Respond(Outcome(R(500, "Failed to update note"), DB), I)
         ELSE Respond(Outcome([R(200, "Note updated successfully")
                                EXCEPT !.note = << CHOOSE n \in updated[1].notes : n.id = req.noteId >>],
                              updated[1]), I)
      /\ Goto(p, Idle)

DeleteNoteStart(p, I) ==
  \E header \in Headers(I), noteId \in NoteIds :
    NoteWriteStart(p, I, "DELETE /api/notes/:id",
                   [NoReq EXCEPT !.header = header, !.noteId = noteId], FALSE, "deleteFind")

(* prisma.note.findFirst({ where: { id: noteId, userId } }) and the 404 answer *)
DeleteNoteFind(p, I) ==
  /\ inflight[p].pc = "deleteFind"
  /\ IF FindNote(DB, inflight[p].req.noteId, inflight[p].userId) = {}
     THEN /\ Respond(Outcome([Response("DELETE /api/notes/:id", 404, "Note not found", inflight[p].req)
                                EXCEPT !.userId = inflight[p].userId], DB), I)
          /\ Goto(p, Idle)
     ELSE /\ Silent(DB, I)
          /\ Goto(p, [inflight[p] EXCEPT !.pc = "deleteWrite"])

(* prisma.note.delete and the answer; the catch answers 500 when it throws *)
DeleteNoteWrite(p, I) ==
  LET req == inflight[p].req
      R(status, msg) == [Response("DELETE /api/notes/:id", status, msg, req) EXCEPT !.userId = inflight[p].userId]
      removed == DeleteNote(DB, req.noteId)
  IN  /\ inflight[p].pc = "deleteWrite"
      /\ IF removed = << >>
         THEN Respond(Outcome(R(500, "Failed to delete note"), DB), I)
         ELSE Respond(Outcome(R(200, "Note deleted successfully"), removed[1]), I)
      /\ Goto(p, Idle)

NextNoteRace ==
  \/ Signup(NoteRaceInputs)
  \/ SignupVerify(NoteRaceInputs)
  \/ CreateNote(NoteRaceInputs)
  \/ \E p \in Procs :
       \/ UpdateNoteStart(p, NoteRaceInputs)
       \/ UpdateNoteFind(p, NoteRaceInputs)
       \/ UpdateNoteWrite(p, NoteRaceInputs)
       \/ DeleteNoteStart(p, NoteRaceInputs)
       \/ DeleteNoteFind(p, NoteRaceInputs)
       \/ DeleteNoteWrite(p, NoteRaceInputs)

SpecNoteRace == Init /\ [][NextNoteRace]_vars

(* C19: whatever the interleaving of PUT and DELETE requests by the owner on one
   note, no request is answered 500: one whose note is gone when its write is applied
   is answered 404 'Note not found'; and a DELETE cannot succeed on a note for which
   a DELETE has answered success, so exactly one of several succeeds. *)
C19_GoneNoteIs404 ==
  /\ resp.op \in { "PUT /api/notes/:id", "DELETE /api/notes/:id" } => resp.status # 500
  /\ \A p \in Procs :
       (inflight[p].pc = "deleteWrite" /\ inflight[p].req.noteId \in gone) =>
         DeleteNote(DB, inflight[p].req.noteId) = << >>

----------------------------------------------------------------------------
(* The frontend: the signup and signin pages verify an OTP and keep the token in
   localStorage, the dashboard signs out; requests with the tokens the server handed
   out go on *)

ClientInputs ==
  [dobs |-> Dobs, emails |-> { <<"A", " ">> }, names |-> { <<"n">> }, otps |-> { <<"1">> },
   codes |-> { <<"1">> }, mailOk |-> { TRUE }, sessionOk |-> { TRUE }, keepLoggedIn |-> BOOLEAN,
   titles |-> {}, contents |-> {},
   newTitles |-> {}, newContents |-> {}, badHeaders |-> { NoHeader }, badTokens |-> {}, track |-> {},
   steps |-> SecondSteps, maxTicks |-> ClientMaxTicks, maxOtps |-> MaxOtps,
   maxSessions |-> MaxSessions, maxNotes |-> MaxNotes]

(* what the pages do with the answer of a verify request: on 200 they store the token
   and the user and navigate to the dashboard, which mounts in its initial state *)
StoreSession(r) ==
  client' = IF r.status = 200
            THEN [authToken |-> r.token, user |-> r.user, page |-> "/dashboard"]
            ELSE client

(* signup.tsx handleSignup *)
SignupPageVerify(I) ==
  \E email \in I.emails, otp \in I.otps :
    \E o \in SignupVerifyHandler(DB, now, NormalizeEmail(email), Trim(otp), TRUE) :
      /\ Answer(o, I)
      /\ StoreSession(o.resp)
      /\ dashboard' = IF o.resp.status = 200 THEN NoDashboard ELSE dashboard
      /\ UNCHANGED <<inflight, signedOut, form>>

(* signin page handleSignIn *)
SigninPageVerify(I) ==
  \E email \in I.emails, otp \in I.otps, keepLoggedIn \in I.keepLoggedIn :
    \E o \in SigninVerifyHandler(DB, now, email, otp, keepLoggedIn, TRUE) :
      /\ Answer(o, I)
      /\ StoreSession(o.resp)
      /\ dashboard' = IF o.resp.status = 200 THEN NoDashboard ELSE dashboard
      /\ UNCHANGED <<inflight, signedOut, form>>

(* Dashboard.handleSignOut: removeItem('authToken'), removeItem('user'), navigate('/signin');
   it sends no request *)
DashboardSignOut ==
  /\ client.page = "/dashboard"
  /\ client' = [authToken |-> NoToken, user |-> << >>, page |-> "/signin"]
  /\ signedOut' = IF client.authToken = NoToken THEN signedOut ELSE signedOut \cup { client.authToken }
  /\ dashboard' = NoDashboard
  /\ resp' = NoResp
  /\ UNCHANGED <<now, ticks, inflight, form>>
  /\ UNCHANGED dbVars
  /\ UNCHANGED histVars

NextClient ==
  \/ Signup(ClientInputs)
  \/ SignupPageVerify(ClientInputs)
  \/ Signin(ClientInputs)
  \/ SigninPageVerify(ClientInputs)
  \/ DashboardSignOut
  \/ GetNotes(ClientInputs)
  \/ Tick(ClientInputs)

SpecClient == Init /\ [][NextClient]_vars

(* C20: after handleSignOut has run, the token that was held in localStorage is
   accepted by authMiddleware on no notes endpoint. *)
C20_SignOutEndsSession ==
  \A token \in signedOut :
    /\ ~authMiddleware(DB, now, Bearer(token)).ok
    /\ \A o \in GetNotesHandler(DB, now, Bearer(token)) : o.resp.status = 401

----------------------------------------------------------------------------
(* The signup page (signup.tsx): the fields of the form are typed in, and
   'Get OTP' validates them before it posts them to /api/signup *)

FormMaxOtps == 2

(* new Date() in the browser: the day on which the model's clock runs *)
Today == [year |-> 2026, month |-> 6, day |-> 15]

(* birthDate > today *)
DateAfter(a, b) ==
  \/ a.year > b.year
  \/ a.year = b.year /\ a.month > b.month
  \/ a.year = b.year /\ a.month = b.month /\ a.day > b.day

(* the age in completed years on the day today *)
ActualAge(birthDate, today) ==
  LET age == today.year - birthDate.year
      monthDiff == today.month - birthDate.month
  IN  IF monthDiff < 0 \/ (monthDiff = 0 /\ today.day < birthDate.day) THEN age - 1 ELSE age

(* /^[^\s@]+@[^\s@]+\.[^\s@]+$/ : one '@' with something before it, and after it a '.'
   with something on both sides; no white space *)
EmailRegexTest(s) ==
  \E i \in 2 .. Len(s) :
    /\ s[i] = "@"
    /\ \A k \in 1 .. Len(s) : s[k] # " " /\ (s[k] = "@" => k = i)
    /\ \E j \in (i + 2) .. (Len(s) - 1) : s[j] = "."

(* the newErrors of validateInitialForm; it returns true when there is none *)
validateInitialForm(formData) ==
  [name |-> IF ~Truthy(Trim(formData.name)) THEN "Name is required"
            ELSE IF Len(Trim(formData.name)) < 2 THEN "Name must be at least 2 characters"
            ELSE "",
   dateOfBirth |-> IF ~Truthy(formData.dateOfBirth) THEN "Date of birth is required"
                   ELSE LET birthDate == ParseDate(formData.dateOfBirth)[1]
                            actualAge == ActualAge(birthDate, Today)
                        IN  IF actualAge < 1 THEN "You must be at least 13 years old"
                            ELSE IF actualAge > 120 \/ DateAfter(birthDate, Today)
                            THEN "Please enter a valid date of birth"
                            ELSE "",
   email |-> IF ~Truthy(Trim(formData.email)) THEN "Email is required"
             ELSE IF ~EmailRegexTest(formData.email) THEN "Please enter a valid email address"
             ELSE ""]

(* the values typed into the form: names, the dates a date input yields and e-mail addresses *)
FormNames == { <<"n">>, <<"n", "n", " ">> }

FormDobs ==
  { <<2026, 6, 15>>, <<2025, 6, 16>>, <<2025, 6, 15>>, <<2021, 6, 15>>, <<2014, 6, 15>>,
    <<2013, 7, 1>>, <<2013, 6, 16>>, <<2013, 6, 15>>, <<1990, 1, 1>>, <<1905, 1, 1>>, <<2027, 1, 1>> }

FormEmails == { <<"A", "@", "b", ".", "c">>, <<"a", "@", "b">> }

FormInputs ==
  [dobs |-> FormDobs, emails |-> FormEmails, names |-> FormNames, otps |-> { <<"1">> },
   codes |-> { <<"1">> }, mailOk |-> BOOLEAN, sessionOk |-> { TRUE }, keepLoggedIn |-> { FALSE },
   titles |-> {}, contents |-> {},
   newTitles |-> {}, newContents |-> {}, badHeaders |-> {}, badTokens |-> {}, track |-> {},
   steps |-> {}, maxTicks |-> 0, maxOtps |-> FormMaxOtps,
   maxSessions |-> MaxSessions, maxNotes |-> MaxNotes]

(* handleInputChange of one field: the value is stored, the error of the field and the
   apiError cleared; the inputs are disabled once the OTP field is shown, and the button
   then runs handleSignup *)
InputName(I) ==
  /\ ~form.showOtpField
  /\ \E value \in I.names \cup { << >> } :
       form' = [form EXCEPT !.name = value, !.errors.name = "", !.apiError = "",
                            !.validated = FALSE, !.posted = FALSE]
  /\ resp' = NoResp
  /\ UNCHANGED <<now, ticks, inflight, client, signedOut, dashboard>>
  /\ UNCHANGED dbVars
  /\ UNCHANGED histVars

InputDateOfBirth(I) ==
  /\ ~form.showOtpField
  /\ \E value \in I.dobs \cup { << >> } :
       form' = [form EXCEPT !.dateOfBirth = value, !.errors.dateOfBirth = "", !.apiError = "",
                            !.validated = FALSE, !.posted = FALSE]
  /\ resp' = NoResp
  /\ UNCHANGED <<now, ticks, inflight, client, signedOut, dashboard>>
  /\ UNCHANGED dbVars
  /\ UNCHANGED histVars

InputEmail(I) ==
  /\ ~form.showOtpField
  /\ \E value \in I.emails \cup { << >> } :
       form' = [form EXCEPT !.email = value, !.errors.email = "", !.apiError = "",
                            !.validated = FALSE, !.posted = FALSE]
  /\ resp' = NoResp
  /\ UNCHANGED <<now, ticks, inflight, client, signedOut, dashboard>>
  /\ UNCHANGED dbVars
  /\ UNCHANGED histVars

(* handleGetOtp, the form refused: the errors are shown and nothing is sent *)
GetOtpRefused ==
  /\ ~form.showOtpField
  /\ validateInitialForm(form) # NoErrors
  /\ form' = [form EXCEPT !.errors = validateInitialForm(form), !.validated = TRUE, !.posted = FALSE]
  /\ resp' = NoResp
  /\ UNCHANGED <<now, ticks, inflight, client, signedOut, dashboard>>
  /\ UNCHANGED dbVars
  /\ UNCHANGED histVars

(* handleGetOtp, the form accepted: POST /api/signup and what the page does with the answer *)
GetOtpPosted(I) ==
  /\ ~form.showOtpField
  /\ validateInitialForm(form) = NoErrors
  /\ \E mailOk \in I.mailOk, code \in I.codes :
       \E o \in SignupHandler(DB, now, Trim(form.name), Trim(ToLowerCase(form.email)),
                              form.dateOfBirth, mailOk, code) :
         /\ Answer(o, I)
         /\ form' = [form EXCEPT !.errors = NoErrors, !.validated = TRUE, !.posted = TRUE,
                                 !.showOtpField = @ \/ o.resp.status = 200,
                                 !.apiError = IF o.resp.status = 200 THEN "" ELSE o.resp.msg]
  /\ UNCHANGED <<inflight, client, signedOut, dashboard>>

NextForm ==
  \/ InputName(FormInputs)
  \/ InputDateOfBirth(FormInputs)
  \/ InputEmail(FormInputs)
  \/ GetOtpRefused
  \/ GetOtpPosted(FormInputs)

SpecForm == Init /\ [][NextForm]_vars

(* C21: whenever 'Get OTP' has checked a form whose date of birth gives an age in
   completed years below 13, the dateOfBirth error is 'You must be at least 13 years
   old' and no /api/signup request was sent. *)
C21_MinimumAge13 ==
  (form.validated /\ Truthy(form.dateOfBirth)
     /\ ActualAge(ParseDate(form.dateOfBirth)[1], Today) < 13) =>
    /\ form.errors.dateOfBirth = "You must be at least 13 years old"
    /\ ~form.posted

----------------------------------------------------------------------------
(* The dashboard: when it mounts, its effect reads localStorage and loads the notes *)

DashMaxTicks == 1

DashMaxOtps == 2

DashInputs ==
  [dobs |-> Dobs, emails |-> { <<"A", " ">> }, names |-> { <<"n">> }, otps |-> { <<"1">> },
   codes |-> { <<"1">> }, mailOk |-> { TRUE }, sessionOk |-> { TRUE }, keepLoggedIn |-> BOOLEAN,
   titles |-> { << <<"t">> >> }, contents |-> { << >> },
   newTitles |-> {}, newContents |-> {}, badHeaders |-> {}, badTokens |-> {}, track |-> {},
   steps |-> SecondSteps, maxTicks |-> DashMaxTicks, maxOtps |-> DashMaxOtps,
   maxSessions |-> MaxSessions, maxNotes |-> AuthzMaxNotes]

(* the browser opens /dashboard: the component mounts in its initial state *)
VisitDashboard ==
  /\ client.page # "/dashboard"
  /\ client' = [client EXCEPT !.page = "/dashboard"]
  /\ dashboard' = NoDashboard
  /\ resp' = NoResp
  /\ UNCHANGED <<now, ticks, inflight, signedOut, form>>
  /\ UNCHANGED dbVars
  /\ UNCHANGED histVars

(* verifyTokenAndLoadData without a token or a user in localStorage: navigate('/signin') *)
DashboardRedirect ==
  /\ client.page = "/dashboard"
  /\ dashboard.isLoading
  /\ client.authToken = NoToken \/ client.user = << >>
  /\ client' = [client EXCEPT !.page = "/signin"]
  /\ dashboard' = NoDashboard
  /\ resp' = NoResp
  /\ UNCHANGED <<now, ticks, inflight, signedOut, form>>
  /\ UNCHANGED dbVars
  /\ UNCHANGED histVars

(* verifyTokenAndLoadData with both: loadNotes sends GET /api/notes and keeps response.data.notes;
   its own catch logs a failure and returns, so that the catch of verifyTokenAndLoadData,
   which navigates to /signin, is not entered; finally setIsLoading(false) *)
DashboardLoadNotes(I) ==
  /\ client.page = "/dashboard"
  /\ dashboard.isLoading
  /\ client.authToken # NoToken /\ client.user # << >>
  /\ \E o \in GetNotesHandler(DB, now, Bearer(client.authToken)) :
       /\ Answer(o, I)
       /\ dashboard' = [isLoading |-> FALSE,
                        notes |-> IF o.resp.status = 200 THEN o.resp.notes ELSE dashboard.notes,
                        status |-> o.resp.status]
  /\ UNCHANGED <<inflight, client, signedOut, form>>

NextDashboard ==
  \/ Signup(DashInputs)
  \/ SignupPageVerify(DashInputs)
  \/ Signin(DashInputs)
  \/ SigninPageVerify(DashInputs)
  \/ CreateNote(DashInputs)
  \/ Logout(DashInputs)
  \/ VisitDashboard
  \/ DashboardRedirect
  \/ DashboardLoadNotes(DashInputs)
  \/ DashboardSignOut
  \/ Tick(DashInputs)

SpecDashboard == Init /\ [][NextDashboard]_vars

(* C22: when the dashboard's request for the notes has failed, the browser is on
   /signin; and the notes view (the dashboard, no longer loading) is shown only when
   the request for the notes succeeded. *)
C22_FailedLoadGoesToSignin ==
  /\ dashboard.status \notin { 0, 200 } => client.page = "/signin"
  /\ (client.page = "/dashboard" /\ ~dashboard.isLoading) => dashboard.status = 200

----------------------------------------------------------------------------
(* The data of a signup: several names and dates of birth for one email, each
   signup replacing the OTP of the one before *)

DataMaxTicks == 2

DataMaxOtps == 2

DataNames == { <<"n">>, <<" ", "m">> }

(* two days, and a string that names no date *)
DataDobs == { <<2000, 1, 1>>, <<1999, 2, 2>>, <<2000, 13, 1>> }

DataInputs ==
  [dobs |-> DataDobs, emails |-> { <<"A", " ">> }, names |-> DataNames, otps |-> { <<"1">> },
   codes |-> { <<"1">> }, mailOk |-> { TRUE }, sessionOk |-> { TRUE }, keepLoggedIn |-> { FALSE },
   titles |-> {}, contents |-> {},
   newTitles |-> {}, newContents |-> {}, badHeaders |-> {}, badTokens |-> {}, track |-> { "issue" },
   steps |-> OtpSteps, maxTicks |-> DataMaxTicks, maxOtps |-> DataMaxOtps,
   maxSessions |-> MaxSessions, maxNotes |-> MaxNotes]

NextData ==
  \/ Signup(DataInputs)
  \/ SignupVerify(DataInputs)
  \/ Tick(DataInputs)

SpecData == Init /\ [][NextData]_vars

(* C23 as stated: whenever /api/signup/verify succeeds, the user it created has
   exactly the name, the normalized email and the date of birth of the /api/signup
   request that issued the OTP row it matched, and that request is the last signup
   of the email. *)
C23_AsStated ==
  \A email \in DataInputs.emails, otp \in DataInputs.otps :
    \A o \in SignupVerifyHandler(DB, now, email, otp, TRUE) :
      o.resp.status = 200 =>
        \E g \in issue :
          /\ g.otpId = o.resp.otpId /\ g.op = "signup"
          /\ \A h \in issue : NormalizeEmail(h.req.email) = NormalizeEmail(g.req.email) => h.otpId <= g.otpId
          /\ \E u \in o.db.users \ users :
               /\ u.id = o.resp.userId
               /\ u.name = g.req.name
               /\ u.email = NormalizeEmail(g.req.email)
               /\ u.dateOfBirth = ParseDate(g.req.dateOfBirth)[1]

(* C23: whenever /api/signup/verify succeeds, the user it created has the name with
   the white space around it removed, the normalized email and the date of birth of
   the /api/signup request that issued the OTP row it matched, and that request is
   the last signup of the email: the data of a replaced signup is not used. *)
C23_UserFromIssuingSignup ==
  \A email \in DataInputs.emails, otp \in DataInputs.otps :
    \A o \in SignupVerifyHandler(DB, now, email, otp, TRUE) :
      o.resp.status = 200 =>
        \E g \in issue :
          /\ g.otpId = o.resp.otpId /\ g.op = "signup"
          /\ \A h \in issue : NormalizeEmail(h.req.email) = NormalizeEmail(g.req.email) => h.otpId <= g.otpId
          /\ \E u \in o.db.users \ users :
               /\ u.id = o.resp.userId
               /\ u.name = Trim(g.req.name)
               /\ u.email = NormalizeEmail(g.req.email)
               /\ u.dateOfBirth = ParseDate(g.req.dateOfBirth)[1]

(* a signup of the email was replaced by one with another name and another date of
   birth, and /api/signup/verify has created the user from the OTP of the second *)
C23_Witness ==
  /\ resp.op = "signup/verify" /\ resp.status = 200
  /\ \E g \in issue, h \in issue :
       /\ g.otpId = resp.otpId /\ h.otpId < g.otpId
       /\ NormalizeEmail(h.req.email) = NormalizeEmail(g.req.email)
       /\ h.req.name # g.req.name /\ h.req.dateOfBirth # g.req.dateOfBirth
       /\ \E u \in users : u.id = resp.userId /\ u.name = Trim(g.req.name)

----------------------------------------------------------------------------
(* Mail faults: sendOTPEmail throws on some of the requests that issue an OTP *)

MailMaxTicks == 2

MailMaxOtps == 3

MailInputs ==
  [dobs |-> Dobs, emails |-> { <<"A", " ">> }, names |-> { <<"n">> }, otps |-> { <<"1">> },
   codes |-> { <<"1">> }, mailOk |-> BOOLEAN, sessionOk |-> { TRUE }, keepLoggedIn |-> { FALSE },
   titles |-> {}, contents |-> {},
   newTitles |-> {}, newContents |-> {}, badHeaders |-> {}, badTokens |-> {}, track |-> { "issue" },
   steps |-> OtpSteps, maxTicks |-> MailMaxTicks, maxOtps |-> MailMaxOtps,
   maxSessions |-> MaxSessions, maxNotes |-> MaxNotes]

NextMail ==
  \/ Signup(MailInputs)
  \/ SignupVerify(MailInputs)
  \/ Signin(MailInputs)
  \/ SigninResend(MailInputs)
  \/ SigninVerify(MailInputs)
  \/ Tick(MailInputs)

SpecMail == Init /\ [][NextMail]_vars

(* C26: a request that issues an OTP and whose mail is not sent answers 500 and
   leaves its writes in place: the new row is stored and it is the only row of its
   email and type.  And every row whose mail was not sent is accepted by the verify
   request of its type for as long as it is stored, unverified and unexpired: the
   request consumes the row, and /api/signup/verify answers 200. *)
C26_UnmailedOtpStaysValid ==
  /\ \A email \in MailInputs.emails, code \in MailInputs.codes :
       LET requests == [SIGNUP |-> UNION { SignupHandler(DB, now, name, email, dateOfBirth, FALSE, code) :
                                            name \in MailInputs.names, dateOfBirth \in MailInputs.dobs },
                        SIGNIN |-> SigninHandler(DB, now, email, FALSE, code)
                                     \cup SigninResendHandler(DB, now, email, FALSE, code)]
       IN  \A type \in OtpTypes :
             \A o \in requests[type] :
               o.resp.status \notin { 400, 403, 404, 409 } =>
                 /\ o.resp.status = 500
                 /\ \E r \in o.db.otps :
                      /\ r.id = nextId.otp /\ r.code = code /\ r.type = type
                      /\ r.email = NormalizeEmail(email) /\ ~r.verified /\ r.expiresAt = now + OtpTtl
                      /\ \A x \in o.db.otps : (x.email = r.email /\ x.type = type) => x = r
  /\ \A g \in issue :
       g.status = 500 =>
         \A r \in otps :
           (r.id = g.otpId /\ ~r.verified /\ r.expiresAt > now /\ r.attempts < AttemptLimit) =>
             \A o \in (IF r.type = "SIGNUP"
                       THEN SignupVerifyHandler(DB, now, r.email, r.code, TRUE)
                       ELSE SigninVerifyHandler(DB, now, r.email, r.code, FALSE, TRUE)) :
               /\ o.resp.otpId = r.id
               /\ o.resp.msg # "Invalid or expired OTP"
               /\ \E x \in o.db.otps : x.id = r.id /\ x.verified
               /\ r.type = "SIGNUP" => o.resp.status = 200

(* a signin was verified with a code whose mail was not sent, by a user whose signup
   code was not mailed either *)
C26_Witness ==
  /\ resp.op = "signin/verify" /\ resp.status = 200
  /\ \E g \in issue : g.otpId = resp.otpId /\ g.status = 500
  /\ \E g \in issue : g.op = "signup" /\ g.status = 500 /\ \E x \in otps : x.id = g.otpId /\ x.verified

====
